---- MODULE Spec2Model ----
(***************************************************************************)
(* A model of the request-gating core of the Personal AI Legal Advocate    *)
(* backend: the JWT identity middleware (authenticateToken, optionalAuth), *)
(* the gates that follow it (requireAdmin, userRateLimit) and the account  *)
(* routes that change what the identity middleware sees (register, login,  *)
(* deactivate, reactivate, password), the ownership and subscription      *)
(* gates, the risk engine of POST /risk-assessment with its arithmetic on  *)
(* doubles, the message route of the chat, and the record routes: the      *)
(* documents with their soft delete, the cases with their generated case   *)
(* numbers, and the journal entries with their edit history.               *)
(*                                                                         *)
(* Node runs every handler to its next `await` without interruption, so    *)
(* one action of the model is one such synchronous run.                    *)
(***************************************************************************)
EXTENDS Integers, Sequences, FiniteSets, TLC

VARIABLES
    maxRequests,   \* userRateLimit's first parameter, fixed per limiter instance
    windowMs,      \* userRateLimit's second parameter, fixed per limiter instance
    now,           \* the value Date.now() returns (milliseconds, non-decreasing)
    userRequests,  \* the limiter's Map: user id -> list of admitted timestamps
    responses,     \* per user, the limiter's outcomes in order (what each client saw)
    users,         \* the User collection: id -> stored document
    slots,         \* the requests being served: slot -> request context (req, res)
    assessments,   \* the answers of POST /risk-assessment so far, with their inputs
    chat,          \* a conversation: its stored messages and the request posting to it
    documents,     \* the Document collection: _id (the index) -> stored document
    cases,         \* the Case collection, in order of creation (deleted cases are gone)
    entries,       \* the JournalEntry collection: _id (the index) -> stored entry
    year,          \* the value new Date().getFullYear() returns
    shown          \* the last answer a record route gave, with the request it answered

rateVars == <<maxRequests, windowMs, now, userRequests, responses>>
storeVars == <<users>>
reqVars == <<slots>>
riskVars == <<assessments>>
chatVars == <<chat>>
recordVars == <<documents, cases, entries, year, shown>>
vars == <<rateVars, storeVars, reqVars, riskVars, chatVars, recordVars>>

\* What the actions of the limiter alone leave unchanged.
outsideRate == <<storeVars, reqVars, riskVars, chatVars, recordVars>>

(***************************************************************************)
(* Bounds of the model.                                                    *)
(***************************************************************************)
\* The number of limiter invocations explored in SpecRate.
MaxCalls == 5

\* The ids of the users; req.user._id.toString() is the limiter's key.
UserIds == {"u1", "u2"}

\* The requests that can be in flight at once.
Slots == {"a", "b"}

\* How far the clock may have moved between two invocations of the limiter.
Deltas == {0, 500, 1000, 60000}

\* The limiter instances explored: <<maxRequests, windowMs>>.
LimiterConfigs == {<<1, 1500>>, <<2, 2000>>, <<3, 60000>>}


(***************************************************************************)
(* The User collection                                                     *)
(***************************************************************************)
NoPassword == "null"

\* The passwords clients type.
Passwords == {"pw1", "pw2"}

\* bcrypt.hash(password, salt), up to the salt.
Hash(password) == "bcrypt:" \o password

\* An id under which the collection holds no document.
NoDocument == [exists |-> FALSE, isActive |-> FALSE, password |-> NoPassword]

\* new User({ profileName, email, password }) after save(): isActive defaults
\* to true and the pre-save hook replaces the password by its hash.
NewUser(password) ==
    [exists |-> TRUE, isActive |-> TRUE,
     password |-> IF password = NoPassword THEN NoPassword ELSE Hash(password)]

\* userSchema.methods.comparePassword
ComparePassword(doc, candidatePassword) ==
    IF doc.password = NoPassword THEN FALSE ELSE doc.password = Hash(candidatePassword)

\* What an awaited User.findById(id).select('-password') resolves to: it
\* throws, resolves to null, or resolves to the document without its password.
LookupError == [kind |-> "error", id |-> "", isActive |-> FALSE]
LookupNull == [kind |-> "null", id |-> "", isActive |-> FALSE]
NoLookup == [kind |-> "none", id |-> "", isActive |-> FALSE]
FindById(id, ok) ==
    IF ~ok THEN LookupError
    ELSE IF id \notin UserIds \/ ~users[id].exists THEN LookupNull
    ELSE [kind |-> "doc", id |-> id, isActive |-> users[id].isActive]

(***************************************************************************)
(* The Authorization header and the token it carries                       *)
(***************************************************************************)
\* A header value is a string: a sequence of pieces of text without a space
\* (a word, or a JWT) and of single spaces.
Space == [kind |-> "space", text |-> " ", userId |-> "", signed |-> FALSE, expired |-> FALSE]
Word(w) == [kind |-> "word", text |-> w, userId |-> "", signed |-> FALSE, expired |-> FALSE]

\* jwt.sign({ userId }, secret, { expiresIn: '7d' }) as the client holds it:
\* signed with the server's secret or not, past its expiry or not.
Jwt(userId, signed, expired) ==
    [kind |-> "jwt", text |-> "", userId |-> userId, signed |-> signed, expired |-> expired]

\* generateToken(userId): a token fresh from the server.
GenerateToken(userId) == Jwt(userId, TRUE, FALSE)

AbsentHeader == [present |-> FALSE, chars |-> <<>>]
Header(chars) == [present |-> TRUE, chars |-> chars]

\* str.split(' '): the pieces between the spaces, empty pieces included.
RECURSIVE SplitFrom(_, _, _)
SplitFrom(chars, i, piece) ==
    IF i > Len(chars) THEN <<piece>>
    ELSE IF chars[i].kind = "space" THEN <<piece>> \o SplitFrom(chars, i + 1, <<>>)
    ELSE SplitFrom(chars, i + 1, Append(piece, chars[i]))
Split(chars) == SplitFrom(chars, 1, <<>>)

\* const token = authHeader && authHeader.split(' ')[1]; undefined and the
\* empty string are both the empty sequence here (both are falsy).
ExtractToken(header) ==
    IF ~header.present \/ header.chars = <<>> THEN <<>>
    ELSE LET parts == Split(header.chars)
         IN  IF Len(parts) >= 2 THEN parts[2] ELSE <<>>

\* jwt.verify(token, secret): the name of the error it throws, or the payload.
\* The library checks the shape, then the signature, then the expiry.
JwtVerify(token) ==
    IF Len(token) # 1 \/ token[1].kind # "jwt"
        THEN [error |-> "JsonWebTokenError", userId |-> ""]
    ELSE IF ~token[1].signed
        THEN [error |-> "JsonWebTokenError", userId |-> ""]
    ELSE IF token[1].expired
        THEN [error |-> "TokenExpiredError", userId |-> ""]
    ELSE [error |-> "none", userId |-> token[1].userId]

(***************************************************************************)
(* Ids as JavaScript values, and the objects that carry them               *)
(***************************************************************************)
\* An id is a string, a number or an ObjectId (which wraps its hex string);
\* a field that is missing reads as undefined.
StringId(text) == [repr |-> "string", text |-> text, num |-> 0]
NumberId(n) == [repr |-> "number", text |-> "", num |-> n]
ObjectId(hex) == [repr |-> "objectId", text |-> hex, num |-> 0]
Undefined == [repr |-> "undefined", text |-> "", num |-> 0]

\* Number.prototype.toString for a natural number: its decimal digits.
RECURSIVE NumberToString(_)
NumberToString(n) ==
    LET digit == <<"0", "1", "2", "3", "4", "5", "6", "7", "8", "9">>[(n % 10) + 1]
    IN  IF n < 10 THEN digit ELSE NumberToString(n \div 10) \o digit

\* value.toString(): a string is itself, an ObjectId gives its hex string, a
\* number its digits; on undefined the call throws a TypeError.
ToStringOf(value) ==
    CASE value.repr = "string" -> [threw |-> FALSE, text |-> value.text]
      [] value.repr = "objectId" -> [threw |-> FALSE, text |-> value.text]
      [] value.repr = "number" -> [threw |-> FALSE, text |-> NumberToString(value.num)]
      [] OTHER -> [threw |-> TRUE, text |-> ""]

\* req.resource or req.body: absent, or an object that has the owner field
\* or lacks it.
NoObject == [present |-> FALSE, has |-> FALSE, owner |-> Undefined]
EmptyObject == [present |-> TRUE, has |-> FALSE, owner |-> Undefined]
OwnedBy(owner) == [present |-> TRUE, has |-> TRUE, owner |-> owner]

\* resource[resourceField]
Field(object) == IF object.has THEN object.owner ELSE Undefined

(***************************************************************************)
(* A request context: what the middleware chain reads and writes           *)
(***************************************************************************)
NoRes == [status |-> 0, code |-> "none"]
NoUser == [attached |-> FALSE, id |-> "", isActive |-> FALSE, oid |-> Undefined,
           role |-> "undefined", plan |-> "undefined"]

\* req.user.role: userSchema declares no role path, so a document read through
\* the model has none.
RoleOf(user) == "undefined"

\* req.user.subscription.plan: the schema's default; no route writes it.
PlanOf(user) == "free"

\* req.user = user, for a document the lookup returned.
Principal(user) ==
    [attached |-> TRUE, id |-> user.id, isActive |-> user.isActive,
     oid |-> ObjectId(user.id), role |-> RoleOf(user), plan |-> PlanOf(user)]

IdleReq ==
    [route |-> "idle", header |-> AbsentHeader, target |-> "", password |-> NoPassword,
     pc |-> "idle", layer |-> 0, decoded |-> "", lookup |-> NoLookup, lookups |-> 0,
     user |-> NoUser, handler |-> FALSE, res |-> NoRes, sent |-> 0, nexts |-> 0,
     arrived |-> 0, at |-> 0, count |-> 0, retryAfter |-> 0,
     resource |-> NoObject, body |-> NoObject, requiredLevel |-> "free",
     newPassword |-> NoPassword,
     reported |-> [requiredLevel |-> "", currentLevel |-> ""]]

NewReq(route, header, target, password) ==
    [IdleReq EXCEPT !.route = route, !.header = header, !.target = target,
                    !.password = password, !.pc = "run", !.layer = 1, !.arrived = now]

\* The answer of the chat route before it is given.
NoChatRes == [status |-> 0, newMessages |-> <<>>, aiError |-> FALSE]

\* The conversation of the Principal, no request posting to it: the stored
\* messages, the messages of the document the request loaded, where the
\* request stands, how many messages were posted, and the answer.
IdleChat == [stored |-> <<>>, doc |-> <<>>, pc |-> "idle", sends |-> 0, res |-> NoChatRes]

\* res.status(status).json({ code, ... }): the request is answered.
Reply(req, status, code) ==
    [req EXCEPT !.res = [status |-> status, code |-> code], !.sent = @ + 1, !.pc = "done"]

\* next(): the following layer of the route runs.
CallNext(req) == [req EXCEPT !.nexts = @ + 1, !.pc = "run", !.layer = @ + 1]

(***************************************************************************)
(* authenticateToken                                                       *)
(***************************************************************************)
\* A catch block that answers every verification error 401 INVALID_TOKEN.
AuthCatchExpiredAsInvalid(req, errorName) ==
    IF errorName \in {"TokenExpiredError", "JsonWebTokenError"}
    THEN Reply(req, 401, "INVALID_TOKEN")
    ELSE Reply(req, 500, "TOKEN_VERIFICATION_FAILED")

\* A catch block without the JsonWebTokenError branch.
AuthCatchNoJwtBranch(req, errorName) ==
    IF errorName = "TokenExpiredError"
    THEN Reply(req, 401, "TOKEN_EXPIRED")
    ELSE Reply(req, 500, "TOKEN_VERIFICATION_FAILED")

\* The catch block of authenticateToken.
AuthCatch(req, errorName) ==
    IF errorName = "TokenExpiredError" THEN Reply(req, 401, "TOKEN_EXPIRED")
    ELSE IF errorName = "JsonWebTokenError" THEN Reply(req, 401, "INVALID_TOKEN")
    ELSE Reply(req, 500, "TOKEN_VERIFICATION_FAILED")

\* From the start of authenticateToken to its await of User.findById.
AuthenticateTokenStart(req) ==
    LET token == ExtractToken(req.header)
    IN  IF token = <<>> THEN Reply(req, 401, "TOKEN_REQUIRED")
        ELSE LET decoded == JwtVerify(token)
             IN  IF decoded.error # "none" THEN AuthCatch(req, decoded.error)
                 ELSE [req EXCEPT !.pc = "lookup", !.decoded = decoded.userId,
                                  !.lookups = @ + 1]

\* A check that forgets the active flag.
UserRejectedIgnoringActive(user) == user.kind = "null"

\* !user || !user.isActive
UserRejected(user) == user.kind = "null" \/ ~user.isActive

\* From the resolution of the lookup to the end of authenticateToken.
AuthenticateTokenResume(req, user) ==
    LET r == [req EXCEPT !.lookup = user]
    IN  IF user.kind = "error" THEN AuthCatch(r, "Error")
        ELSE IF UserRejected(user) THEN Reply(r, 401, "INVALID_TOKEN")
        ELSE CallNext([r EXCEPT !.user = Principal(user)])

(***************************************************************************)
(* optionalAuth                                                            *)
(***************************************************************************)
\* From the start of optionalAuth to its await of User.findById.
OptionalAuthStart(req) ==
    LET token == ExtractToken(req.header)
    IN  IF token = <<>> THEN CallNext(req)
        ELSE LET decoded == JwtVerify(token)
             IN  IF decoded.error # "none" THEN CallNext(req)
                 ELSE [req EXCEPT !.pc = "lookup", !.decoded = decoded.userId,
                                  !.lookups = @ + 1]

\* An acceptance that forgets the active flag.
OptionalUserAcceptedIgnoringActive(user) == user.kind = "doc"

\* user && user.isActive
OptionalUserAccepted(user) == user.kind = "doc" /\ user.isActive

\* From the resolution of the lookup to the end of optionalAuth.
OptionalAuthResume(req, user) ==
    LET r == [req EXCEPT !.lookup = user]
    IN  IF user.kind = "error" THEN CallNext(r)
        ELSE IF OptionalUserAccepted(user)
             THEN CallNext([r EXCEPT !.user = Principal(user)])
             ELSE CallNext(r)

(***************************************************************************)
(* requireAdmin                                                            *)
(***************************************************************************)
\* A gate that lets every Principal with a role through.
RequireAdminAnyRole(req) ==
    IF req.user.role = "undefined" THEN Reply(req, 403, "ADMIN_REQUIRED")
    ELSE CallNext(req)

\* A gate that answers and, its return missing, goes on to next().
RequireAdminWithoutReturn(req) ==
    IF req.user.role # "admin" THEN CallNext(Reply(req, 403, "ADMIN_REQUIRED"))
    ELSE CallNext(req)

\* req.user.role !== 'admin'
RequireAdmin(req) ==
    IF req.user.role # "admin" THEN Reply(req, 403, "ADMIN_REQUIRED")
    ELSE CallNext(req)

(***************************************************************************)
(* checkResourceOwnership                                                  *)
(***************************************************************************)
\* The error-handling middleware of the server answers what a layer throws.
ErrorHandler(req) == Reply(req, 500, "")

\* A comparison of the values themselves, without toString().
IdsDifferStrictly(resourceUserId, currentUserId) == resourceUserId # currentUserId

\* resourceUserId.toString() !== currentUserId.toString()
IdsDiffer(resourceUserId, currentUserId) ==
    ToStringOf(resourceUserId).text # ToStringOf(currentUserId).text

\* The gate with resourceField = 'userId'.
CheckResourceOwnership(req) ==
    LET resource == IF req.resource.present THEN req.resource ELSE req.body
        resourceUserId == Field(resource)
        currentUserId == req.user.oid
    IN  IF ~resource.present THEN Reply(req, 400, "RESOURCE_NOT_FOUND")
        ELSE IF ToStringOf(resourceUserId).threw \/ ToStringOf(currentUserId).threw
             THEN ErrorHandler(req)
        ELSE IF IdsDiffer(resourceUserId, currentUserId)
             THEN Reply(req, 403, "ACCESS_DENIED")
        ELSE CallNext(req)

(***************************************************************************)
(* requireSubscription                                                     *)
(***************************************************************************)
\* A table that knows two plans only.
SubscriptionLevelsWithoutEnterprise(plan) ==
    CASE plan = "free" -> 1
      [] plan = "premium" -> 2
      [] OTHER -> 0

\* subscriptionLevels[plan]; 0 stands for undefined (both are falsy).
SubscriptionLevels(plan) ==
    CASE plan = "free" -> 1
      [] plan = "premium" -> 2
      [] plan = "enterprise" -> 3
      [] OTHER -> 0

\* subscriptionLevels[plan] || 1
LevelValue(plan) == IF SubscriptionLevels(plan) = 0 THEN 1 ELSE SubscriptionLevels(plan)

\* The gate requireSubscription(req.requiredLevel).
RequireSubscription(req) ==
    LET userLevel == LevelValue(req.user.plan)
        requiredLevelValue == LevelValue(req.requiredLevel)
    IN  IF userLevel < requiredLevelValue
        THEN [Reply(req, 403, "SUBSCRIPTION_REQUIRED") EXCEPT
                 !.reported = [requiredLevel |-> req.requiredLevel,
                               currentLevel |-> req.user.plan]]
        ELSE CallNext(req)

(***************************************************************************)
(* userRateLimit (sliding-window log)                                      *)
(***************************************************************************)
\* Math.ceil(a / b) for an integer a and a positive integer b.
CeilDiv(a, b) == -((-a) \div b)

\* now - windowMs
WindowStart(t) == t - windowMs

\* A filter that keeps the timestamp on the window's edge (>= for >).
InWindowInclusive(timestamp, t) == timestamp >= WindowStart(t)

\* The filter's predicate: timestamp > windowStart.
InWindow(timestamp, t) == timestamp > WindowStart(t)

\* A limiter that forgets to filter the history.
PruneNothing(userHistory, t) == userHistory

\* userHistory.filter(timestamp => timestamp > windowStart)
Prune(userHistory, t) == SelectSeq(userHistory, LAMBDA timestamp : InWindow(timestamp, t))

\* An off-by-one comparison (> for >=).
LimitReachedOffByOne(n) == n > maxRequests

\* recentRequests.length >= maxRequests
LimitReached(n) == n >= maxRequests

\* Taking the newest retained timestamp instead of the oldest.
NewestRetained(recentRequests) == recentRequests[Len(recentRequests)]

\* The timestamp retryAfter is computed from: recentRequests[0].
OldestRetained(recentRequests) == recentRequests[1]

\* Math.ceil((recentRequests[0] + windowMs - now) / 1000)
RetryAfter(recentRequests, t) ==
    CeilDiv(OldestRetained(recentRequests) + windowMs - t, 1000)

\* An admission that is not recorded (the push is missing).
StoredWithoutPush(recentRequests, t) == recentRequests

\* An admission recorded in front of the list (unshift for push).
StoredNewestFirst(recentRequests, t) == <<t>> \o recentRequests

\* recentRequests.push(now); userRequests.set(userId, recentRequests)
Stored(recentRequests, t) == Append(recentRequests, t)

\* A limiter that records the rejected requests too.
RateLimitCountingRejected(userHistory, t) ==
    LET recentRequests == SelectSeq(userHistory, LAMBDA timestamp : timestamp > t - windowMs)
        reached == Len(recentRequests) >= maxRequests
    IN  [status      |-> IF reached THEN 429 ELSE 0,
         code        |-> IF reached THEN "RATE_LIMIT_EXCEEDED" ELSE "next",
         retryAfter  |-> IF reached THEN -((-(recentRequests[1] + windowMs - t)) \div 1000)
                         ELSE 0,
         userHistory |-> userHistory,
         count       |-> Len(recentRequests),
         stored      |-> Append(recentRequests, t)]

\* One run of the middleware userRateLimit returns, for the list stored under
\* the user's id and the clock value t: the outcome and the list to store.
RateLimit(userHistory, t) ==
    LET recentRequests == Prune(userHistory, t)
    IN  IF LimitReached(Len(recentRequests))
        THEN [status      |-> 429,
              code        |-> "RATE_LIMIT_EXCEEDED",
              retryAfter  |-> RetryAfter(recentRequests, t),
              userHistory |-> userHistory,
              count       |-> Len(recentRequests),
              stored      |-> userHistory]
        ELSE [status      |-> 0,
              code        |-> "next",
              retryAfter  |-> 0,
              userHistory |-> userHistory,
              count       |-> Len(recentRequests),
              stored      |-> Stored(recentRequests, t)]

\* The part of an outcome the client and the log keep.
Outcome(r, t) ==
    [at |-> t, status |-> r.status, code |-> r.code, retryAfter |-> r.retryAfter,
     userHistory |-> r.userHistory, count |-> r.count]

\* The number of requests the limiter has answered so far.
TotalCalls == LET RECURSIVE Sum(_)
                  Sum(S) == IF S = {} THEN 0
                            ELSE LET u == CHOOSE x \in S : TRUE
                                 IN  Len(responses[u]) + Sum(S \ {u})
              IN  Sum(UserIds)

(***************************************************************************)
(* The record collections before any record route has run.                 *)
(***************************************************************************)
\* A request without a body.
NoBody == [none |-> TRUE]

\* No record route has answered yet.
NoShown == [op |-> "none", userId |-> "", id |-> 0, body |-> NoBody,
            status |-> 0, code |-> "", items |-> {}]

\* Empty collections.
InitRecords ==
    /\ documents = <<>>
    /\ cases = <<>>
    /\ entries = <<>>
    /\ year = 2025
    /\ shown = NoShown

\* A limiter instance is created: const userRequests = new Map().
InitRate ==
    /\ \E c \in LimiterConfigs : maxRequests = c[1] /\ windowMs = c[2]
    /\ now = 0
    /\ userRequests = [u \in UserIds |-> <<>>]
    /\ responses = [u \in UserIds |-> <<>>]
    /\ users = [u \in UserIds |-> NoDocument]
    /\ slots = [s \in Slots |-> IdleReq]
    /\ assessments = <<>>
    /\ chat = IdleChat
    /\ InitRecords

\* A request of user u reaches the limiter d milliseconds after the previous one.
UserRateLimit(u, d) ==
    /\ TotalCalls < MaxCalls
    /\ now' = now + d
    /\ LET r == RateLimit(userRequests[u], now')
       IN  /\ userRequests' = [userRequests EXCEPT ![u] = r.stored]
           /\ responses' = [responses EXCEPT ![u] = Append(@, Outcome(r, now'))]
    /\ UNCHANGED <<maxRequests, windowMs>>
    /\ UNCHANGED outsideRate

NextRate == \E u \in UserIds, d \in Deltas : UserRateLimit(u, d)

SpecRate == InitRate /\ [][NextRate]_vars


(***************************************************************************)
(* The routes: each is a chain of layers that Express runs in order        *)
(***************************************************************************)
\* router.<method>(path, ...layers). "limited" is a route guarded by the
\* identity middleware and a limiter instance, as the gates are meant to be
\* composed; "optional" is a route behind optionalAuth; "owned" and "planned"
\* are routes guarded by the ownership gate and by the subscription gate;
\* "listUsers" is GET /api/users.
Chain(route) ==
    CASE route = "register"   -> <<"handler">>
      [] route = "login"      -> <<"handler">>
      [] route = "profile"    -> <<"authenticateToken", "handler">>
      [] route = "deactivate" -> <<"authenticateToken", "handler">>
      [] route = "reactivate" -> <<"authenticateToken", "requireAdmin", "handler">>
      [] route = "limited"    -> <<"authenticateToken", "userRateLimit", "handler">>
      [] route = "optional"   -> <<"optionalAuth", "handler">>
      [] route = "password"   -> <<"authenticateToken", "handler">>
      [] route = "owned"      -> <<"authenticateToken", "checkResourceOwnership", "handler">>
      [] route = "planned"    -> <<"authenticateToken", "requireSubscription", "handler">>
      [] route = "listUsers"  -> <<"authenticateToken", "requireAdmin", "handler">>
      [] route = "faulty"     -> <<"authenticateToken", "handler">>
      [] route = "optionalFaulty" -> <<"optionalAuth", "handler">>
      [] route = "logout"     -> <<"authenticateToken", "handler">>

Layer(req) == Chain(req.route)[req.layer]

\* The routes whose first layer is authenticateToken.
AuthRoutes ==
    {"profile", "deactivate", "reactivate", "limited", "password", "faulty", "logout"}

\* The world one synchronous run reads and writes.
World(req, store, history) == [req |-> req, users |-> store, userRequests |-> history]

\* userRateLimit as a layer: it keys the Map by req.user._id.toString().
RateLimitLayer(w) ==
    LET userId == w.req.user.id
        r == RateLimit(w.userRequests[userId], now)
        seen == [w.req EXCEPT !.at = now, !.count = r.count, !.retryAfter = r.retryAfter]
    IN  IF r.status = 429
        THEN [w EXCEPT !.req = Reply(seen, 429, r.code)]
        ELSE [w EXCEPT !.req = CallNext(seen),
                       !.userRequests = [@ EXCEPT ![userId] = r.stored]]

\* POST /register, with `ok` saying whether the store's calls succeed.
RegisterHandler(w, ok) ==
    LET req == [w.req EXCEPT !.handler = TRUE]
        id == req.target
    IN  IF ~ok THEN [w EXCEPT !.req = Reply(req, 500, "")]
        ELSE IF w.users[id].exists
             THEN [w EXCEPT !.req = Reply(req, 400, "PROFILE_EXISTS")]
             ELSE [w EXCEPT !.req = Reply(req, 201, ""),
                            !.users = [@ EXCEPT ![id] = NewUser(req.password)]]

\* POST /login by profile name.
LoginHandler(w, ok) ==
    LET req == [w.req EXCEPT !.handler = TRUE]
        user == w.users[req.target]
    IN  IF ~ok THEN [w EXCEPT !.req = Reply(req, 500, "")]
        ELSE IF ~user.exists \/ ~user.isActive
             THEN [w EXCEPT !.req = Reply(req, 401, "INVALID_CREDENTIALS")]
        ELSE IF req.password # NoPassword /\ user.password # NoPassword
             THEN IF ComparePassword(user, req.password)
                  THEN [w EXCEPT !.req = Reply(req, 200, "")]
                  ELSE [w EXCEPT !.req = Reply(req, 401, "INVALID_CREDENTIALS")]
        ELSE IF req.password # NoPassword \/ user.password # NoPassword
             THEN [w EXCEPT !.req = Reply(req, 401, "INVALID_CREDENTIALS")]
        ELSE [w EXCEPT !.req = Reply(req, 200, "")]

\* user.password where user is req.user: authenticateToken loaded the
\* document with .select('-password'), so the path is not there.
UserPassword(user) == NoPassword

\* PUT /password up to its first await; the body passed the validators.
PasswordHandler(req) ==
    IF UserPassword(req.user) = NoPassword THEN Reply(req, 400, "NO_PASSWORD")
    ELSE [req EXCEPT !.pc = "compare"]

\* The business handler of the route, up to its first await.
\* A handler that throws, with the throw reaching the guard that called
\* next(): the catch of authenticateToken answers, that of optionalAuth calls
\* next() again.
ThrowingHandlerUncaught(req) ==
    IF Chain(req.route)[1] = "authenticateToken"
    THEN Reply(req, 500, "TOKEN_VERIFICATION_FAILED")
    ELSE [req EXCEPT !.nexts = @ + 1, !.pc = "done"]

\* A handler that throws: the router calls every layer inside its own
\* try/catch and hands what the layer throws to the error-handling
\* middleware, so next() returns normally to the guard that called it.
ThrowingHandler(req) == ErrorHandler(req)

\* A logout that revokes: the account of the Principal is deactivated.
LogoutHandlerRevoking(w, req) ==
    [w EXCEPT !.req = Reply(req, 200, ""),
              !.users = [@ EXCEPT ![req.user.id].isActive = FALSE]]

\* POST /logout: res.json({message: 'Logout successful'}) and nothing else.
LogoutHandler(w, req) == [w EXCEPT !.req = Reply(req, 200, "")]

Handler(w, ok) ==
    LET req == [w.req EXCEPT !.handler = TRUE]
    IN  CASE req.route = "register" -> RegisterHandler(w, ok)
          [] req.route = "logout" -> LogoutHandler(w, req)
          [] req.route \in {"faulty", "optionalFaulty"} ->
                [w EXCEPT !.req = ThrowingHandler(req)]
          [] req.route = "login" -> LoginHandler(w, ok)
          [] req.route = "deactivate" ->
                \* user.isActive = false; await user.save()
                [w EXCEPT !.req = [req EXCEPT !.user.isActive = FALSE, !.pc = "save"]]
          [] req.route = "reactivate" ->
                \* await User.findById(id)
                [w EXCEPT !.req = [req EXCEPT !.pc = "find"]]
          [] req.route = "password" -> [w EXCEPT !.req = PasswordHandler(req)]
          [] OTHER -> [w EXCEPT !.req = Reply(req, 200, "")]

\* One layer, from where the request stands to the layer's next() or answer or await.
Step(w, ok) ==
    LET l == Layer(w.req)
    IN  CASE l = "authenticateToken" -> [w EXCEPT !.req = AuthenticateTokenStart(w.req)]
          [] l = "optionalAuth" -> [w EXCEPT !.req = OptionalAuthStart(w.req)]
          [] l = "requireAdmin" -> [w EXCEPT !.req = RequireAdmin(w.req)]
          [] l = "checkResourceOwnership" ->
                [w EXCEPT !.req = CheckResourceOwnership(w.req)]
          [] l = "requireSubscription" -> [w EXCEPT !.req = RequireSubscription(w.req)]
          [] l = "userRateLimit" -> RateLimitLayer(w)
          [] l = "handler" -> Handler(w, ok)

\* next() calls the following layer on the same stack: the run goes on until
\* the request is answered or awaits the store.
RECURSIVE Run(_, _)
Run(w, ok) == IF w.req.pc # "run" THEN w ELSE Run(Step(w, ok), ok)

\* What the awaited store call of a suspended request resolves to, and the
\* run that follows.
Continue(w, ok) ==
    LET req == w.req
    IN  CASE req.pc = "lookup" /\ Layer(req) = "authenticateToken" ->
                Run([w EXCEPT !.req = AuthenticateTokenResume(req, FindById(req.decoded, ok))], ok)
          [] req.pc = "lookup" /\ Layer(req) = "optionalAuth" ->
                Run([w EXCEPT !.req = OptionalAuthResume(req, FindById(req.decoded, ok))], ok)
          [] req.pc = "find" ->
                \* PATCH /:id/reactivate after User.findById(id)
                IF ~ok THEN [w EXCEPT !.req = Reply(req, 500, "")]
                ELSE IF ~w.users[req.target].exists
                     THEN [w EXCEPT !.req = Reply(req, 404, "USER_NOT_FOUND")]
                     ELSE [w EXCEPT !.req = [req EXCEPT !.pc = "save"]]
          [] req.pc = "compare" ->
                \* PUT /password after user.comparePassword(currentPassword)
                IF ~ok THEN [w EXCEPT !.req = Reply(req, 500, "")]
                ELSE IF UserPassword(req.user) # Hash(req.password)
                     THEN [w EXCEPT !.req = Reply(req, 401, "INVALID_PASSWORD")]
                     ELSE [w EXCEPT !.req = [req EXCEPT !.pc = "save"]]
          [] req.pc = "save" ->
                \* after user.save() of /password, /deactivate or /:id/reactivate
                IF ~ok THEN [w EXCEPT !.req = Reply(req, 500, "")]
                ELSE IF req.route = "password"
                     THEN [w EXCEPT !.req = Reply(req, 200, ""),
                                    !.users = [@ EXCEPT ![req.user.id].password =
                                                            Hash(req.newPassword)]]
                ELSE IF req.route = "deactivate"
                     THEN [w EXCEPT !.req = Reply(req, 200, ""),
                                    !.users = [@ EXCEPT ![req.user.id].isActive = FALSE]]
                     ELSE [w EXCEPT !.req = Reply(req, 200, ""),
                                    !.users = [@ EXCEPT ![req.target].isActive = TRUE]]

(***************************************************************************)
(* The requests clients send                                               *)
(***************************************************************************)
Bearer == Word("Bearer")

\* Authorization headers: absent; a scheme without a token; a fresh token of
\* each user; an expired one; a forged one; a forged expired one; text that
\* is no JWT; two spaces after the scheme; another scheme.
Headers ==
    {AbsentHeader, Header(<<Bearer>>)}
    \cup {Header(<<Bearer, Space, GenerateToken(u)>>) : u \in UserIds}
    \cup {Header(<<Bearer, Space, Jwt("u1", TRUE, TRUE)>>),
          Header(<<Bearer, Space, Jwt("u1", FALSE, FALSE)>>),
          Header(<<Bearer, Space, Jwt("u1", FALSE, TRUE)>>),
          Header(<<Bearer, Space, Word("garbage")>>),
          Header(<<Bearer, Space, Space, GenerateToken("u1")>>),
          Header(<<Word("Basic"), Space, GenerateToken("u1")>>)}

\* The headers sent to the account routes: none, or a user's fresh token.
AccountHeaders ==
    {AbsentHeader} \cup {Header(<<Bearer, Space, GenerateToken(u)>>) : u \in UserIds}

(***************************************************************************)
(* Actions                                                                 *)
(***************************************************************************)
\* A request arrives and runs to its first await or to its answer.
Arrive(s, route, header, target, password, ok) ==
    /\ slots[s].pc \in {"idle", "done"}
    /\ LET w == Run(World(NewReq(route, header, target, password), users, userRequests), ok)
       IN  /\ slots' = [slots EXCEPT ![s] = w.req]
           /\ users' = w.users
           /\ userRequests' = w.userRequests
    /\ UNCHANGED <<maxRequests, windowMs, now, responses, riskVars, chatVars, recordVars>>

\* The store call a request awaits resolves (ok) or throws (~ok), and the
\* request runs on to its next await or to its answer.
Resume(s, ok) ==
    /\ slots[s].pc \in {"lookup", "find", "compare", "save"}
    /\ LET w == Continue(World(slots[s], users, userRequests), ok)
       IN  /\ slots' = [slots EXCEPT ![s] = w.req]
           /\ users' = w.users
           /\ userRequests' = w.userRequests
    /\ UNCHANGED <<maxRequests, windowMs, now, responses, riskVars, chatVars, recordVars>>

\* PUT /password arrives with currentPassword and newPassword in its body and
\* runs to its first await or to its answer.
ChangePassword(s, header, currentPassword, newPassword) ==
    /\ slots[s].pc \in {"idle", "done"}
    /\ LET req == [NewReq("password", header, "", currentPassword) EXCEPT
                      !.newPassword = newPassword]
           w == Run(World(req, users, userRequests), TRUE)
       IN  /\ slots' = [slots EXCEPT ![s] = w.req]
           /\ users' = w.users
           /\ userRequests' = w.userRequests
    /\ UNCHANGED <<maxRequests, windowMs, now, responses, riskVars, chatVars, recordVars>>

\* The server starts with an empty collection and no request in flight.
InitAuth ==
    /\ maxRequests = 1
    /\ windowMs = 1500
    /\ now = 0
    /\ userRequests = [u \in UserIds |-> <<>>]
    /\ responses = [u \in UserIds |-> <<>>]
    /\ users = [u \in UserIds |-> NoDocument]
    /\ slots = [s \in Slots |-> IdleReq]
    /\ assessments = <<>>
    /\ chat = IdleChat
    /\ InitRecords

\* Requests that only read the store arrive on one slot and the account
\* operations on the other: two requests that only read never affect each
\* other, so their interleavings add nothing.
NextAuth ==
    \/ \E route \in {"profile", "optional"}, h \in Headers :
           Arrive("a", route, h, "", NoPassword, TRUE)
    \/ \E u \in UserIds, ok \in BOOLEAN :
           Arrive("b", "register", AbsentHeader, u, "pw1", ok)
    \/ \E u \in UserIds, p \in Passwords :
           Arrive("b", "login", AbsentHeader, u, p, TRUE)
    \/ \E h \in AccountHeaders : Arrive("b", "deactivate", h, "", NoPassword, TRUE)
    \/ \E h \in AccountHeaders : Arrive("b", "logout", h, "", NoPassword, TRUE)
    \/ \E h \in AccountHeaders, u \in UserIds :
           Arrive("b", "reactivate", h, u, NoPassword, TRUE)
    \/ \E u \in UserIds, p \in Passwords :
           ChangePassword("b", Header(<<Bearer, Space, GenerateToken(u)>>), p, "pw2")
    \/ \E s \in Slots, ok \in BOOLEAN : Resume(s, ok)

SpecAuth == InitAuth /\ [][NextAuth]_vars


\* How far the clock moves in one step while requests are in flight.
PipeDeltas == {500, 1000}

\* How many half seconds the clock runs while requests are in flight.
MaxTicks == 3

\* The clock moves on while requests are suspended.
Tick(d) ==
    /\ now + d <= 500 * MaxTicks
    /\ now' = now + d
    /\ UNCHANGED <<maxRequests, windowMs, userRequests, responses, users, slots, riskVars, chatVars, recordVars>>

\* Both users are registered and active, and one limiter instance that admits
\* a single request per window guards the route.
InitPipe ==
    /\ maxRequests = 1
    /\ windowMs \in {1000, 1500}
    /\ now = 0
    /\ userRequests = [u \in UserIds |-> <<>>]
    /\ responses = [u \in UserIds |-> <<>>]
    /\ users = [u \in UserIds |-> NewUser("pw1")]
    /\ slots = [s \in Slots |-> IdleReq]
    /\ assessments = <<>>
    /\ chat = IdleChat
    /\ InitRecords

NextPipe ==
    \/ \E s \in Slots, u \in UserIds :
           Arrive(s, "limited", Header(<<Bearer, Space, GenerateToken(u)>>), "", NoPassword, TRUE)
    \/ \E s \in Slots, ok \in BOOLEAN : Resume(s, ok)
    \/ \E d \in PipeDeltas : Tick(d)

SpecPipe == InitPipe /\ [][NextPipe]_vars

\* The routes behind one of the two identity guards whose handler answers,
\* and the same with a handler that throws.
GuardedProbes == {"profile", "optional", "faulty", "optionalFaulty"}

\* u1 is registered and active; u2 is registered and has deactivated the
\* account.
InitThrow ==
    /\ maxRequests = 1
    /\ windowMs = 1500
    /\ now = 0
    /\ userRequests = [u \in UserIds |-> <<>>]
    /\ responses = [u \in UserIds |-> <<>>]
    /\ users = [u \in UserIds |-> [NewUser("pw1") EXCEPT !.isActive = (u = "u1")]]
    /\ slots = [s \in Slots |-> IdleReq]
    /\ assessments = <<>>
    /\ chat = IdleChat
    /\ InitRecords

NextThrow ==
    \/ \E s \in Slots, route \in GuardedProbes, h \in Headers :
           Arrive(s, route, h, "", NoPassword, TRUE)
    \/ \E s \in Slots, ok \in BOOLEAN : Resume(s, ok)

SpecThrow == InitThrow /\ [][NextThrow]_vars

(***************************************************************************)
(* JavaScript numbers: IEEE 754 doubles, rounded to nearest, ties to even  *)
(***************************************************************************)
\* A double x with 2^-4 <= x < 2^15, or zero, is the integer x * 2^56, held
\* in three limbs of 20 bits: x * 2^56 = h * 2^40 + m * 2^20 + l. Every
\* number the risk engine computes lies in that range.
Zero == [h |-> 0, m |-> 0, l |-> 0]

\* The limbs after the carries have moved up.
Normalize(h, m, l) ==
    LET mid == m + (l \div 1048576)
    IN  [h |-> h + (mid \div 1048576), m |-> mid % 1048576, l |-> l % 1048576]

RECURSIVE BitLength(_)
BitLength(n) == IF n = 0 THEN 0 ELSE 1 + BitLength(n \div 2)

\* The number of significant bits of x * 2^56.
Bits(x) ==
    IF x.h > 0 THEN 40 + BitLength(x.h)
    ELSE IF x.m > 0 THEN 20 + BitLength(x.m)
    ELSE BitLength(x.l)

\* The double nearest to x + rem / den (0 <= rem < den), ties to even: a
\* double holds 53 significant bits.
RoundToDouble(x, rem, den) ==
    LET drop == IF Bits(x) > 53 THEN Bits(x) - 53 ELSE 0
        unit == 2 ^ drop
        low == x.l % unit
        odd == IF drop = 20 THEN x.m % 2 = 1 ELSE (x.l \div unit) % 2 = 1
        up == IF drop = 0
              THEN 2 * rem > den \/ (2 * rem = den /\ odd)
              ELSE \/ 2 * low > unit
                   \/ 2 * low = unit /\ (rem > 0 \/ odd)
    IN  Normalize(x.h, x.m, x.l - low + (IF up THEN unit ELSE 0))

\* x + y
Plus(x, y) == RoundToDouble(Normalize(x.h + y.h, x.m + y.m, x.l + y.l), 0, 1)

\* x * k for a small whole number k
Times(x, k) == RoundToDouble(Normalize(x.h * k, x.m * k, x.l * k), 0, 1)

\* x / k for a small whole number k
DividedBy(x, k) ==
    LET mid == (x.h % k) * 1048576 + x.m
        low == (mid % k) * 1048576 + x.l
    IN  RoundToDouble([h |-> x.h \div k, m |-> mid \div k, l |-> low \div k], low % k, k)

\* The double a decimal literal num/den denotes (0.7 is Double(7, 10)), and
\* the double the division of the whole number num by den gives.
Double(num, den) == DividedBy([h |-> num * 65536, m |-> 0, l |-> 0], den)

\* x >= y
AtLeast(x, y) ==
    \/ x.h > y.h
    \/ x.h = y.h /\ x.m > y.m
    \/ x.h = y.h /\ x.m = y.m /\ x.l >= y.l

\* Math.round(x) for x >= 0: floor(x + 0.5).
MathRound(x) == (x.h + 32768) \div 65536

(***************************************************************************)
(* POST /api/resources/risk-assessment                                     *)
(***************************************************************************)
\* The five keys of riskFactors, in the order the table lists them.
RiskKeys ==
    <<"case_complexity", "evidence_strength", "opponent_resources", "time_constraints",
      "financial_impact">>

\* The labels the route's validators accept for a key, from the lightest to
\* the heaviest.
Labels(key) ==
    CASE key = "case_complexity" -> <<"low", "medium", "high">>
      [] key = "evidence_strength" -> <<"strong", "moderate", "weak">>
      [] key = "opponent_resources" -> <<"limited", "moderate", "extensive">>
      [] key = "time_constraints" -> <<"adequate", "tight", "urgent">>
      [] key = "financial_impact" -> <<"low", "medium", "high">>

\* riskFactors[key][label].score in tenths (the table writes 0.8 for 8).
Tenths(key, label) ==
    LET scores == CASE key = "case_complexity" -> <<2, 5, 8>>
                    [] key = "evidence_strength" -> <<1, 4, 7>>
                    [] key = "opponent_resources" -> <<2, 4, 7>>
                    [] key = "time_constraints" -> <<1, 4, 8>>
                    [] key = "financial_impact" -> <<2, 5, 8>>
    IN  scores[CHOOSE i \in 1..3 : Labels(key)[i] = label]

\* factor.score, the double the literal denotes.
Score(key, label) == Double(Tenths(key, label), 10)

\* factors[key], or "undefined".
ValueOf(factors, key) ==
    IF \E i \in DOMAIN factors : factors[i].key = key
    THEN factors[CHOOSE i \in DOMAIN factors : factors[i].key = key].value
    ELSE "undefined"

\* The double NaN: what a sum with undefined gives, and what every further
\* sum, quotient and rounding of it gives.  No comparison with it is true.
NaN == [h |-> -1, m |-> 0, l |-> 0]

\* The keys of the table riskFactors.
TableKeys == {RiskKeys[i] : i \in DOMAIN RiskKeys}

\* Names every object literal inherits from Object.prototype: riskFactors[name]
\* is a function for them, though the table has no such key.
InheritedNames == {"constructor", "toString"}

\* Names under which a function has a truthy member of its own or inherited.
FunctionMembers == {"name", "call", "constructor"}

\* What riskFactors[key] && riskFactors[key][value] yields: an entry of the
\* table ("factor"), a truthy value that is no entry ("other": a member of an
\* inherited function), or a falsy value ("none").
Looked(key, value) ==
    IF key \in TableKeys
    THEN IF \E i \in 1..3 : Labels(key)[i] = value THEN "factor"
         ELSE IF value \in InheritedNames THEN "other"
         ELSE "none"
    ELSE IF key \in InheritedNames /\ value \in FunctionMembers THEN "other"
    ELSE "none"

\* Object.keys(factors).forEach(...): the running total, the count and the
\* details after the first i keys, in the order the body lists them.
RECURSIVE Accumulated(_, _)
Accumulated(factors, i) ==
    IF i = 0 THEN [totalRiskScore |-> Zero, factorCount |-> 0, assessmentDetails |-> <<>>]
    ELSE LET before == Accumulated(factors, i - 1)
             factor == factors[i]
             looked == Looked(factor.key, factor.value)
         IN  IF looked = "none" THEN before
             ELSE IF looked = "other"
             THEN \* factor.score is undefined
                  [totalRiskScore |-> NaN,
                   factorCount |-> before.factorCount + 1,
                   assessmentDetails |->
                       Append(before.assessmentDetails,
                              [key |-> factor.key, value |-> factor.value, score |-> -1])]
             ELSE [totalRiskScore |->
                       IF before.totalRiskScore = NaN THEN NaN
                       ELSE Plus(before.totalRiskScore, Score(factor.key, factor.value)),
                   factorCount |-> before.factorCount + 1,
                   assessmentDetails |->
                       Append(before.assessmentDetails,
                              [key |-> factor.key, value |-> factor.value,
                               score |-> Tenths(factor.key, factor.value)])]

\* factorCount > 0 ? totalRiskScore / factorCount : 0
AverageRiskScore(factors) ==
    LET sum == Accumulated(factors, Len(factors))
    IN  IF sum.factorCount = 0 THEN Zero
        ELSE IF sum.totalRiskScore = NaN THEN NaN
        ELSE DividedBy(sum.totalRiskScore, sum.factorCount)

\* The level and its colour.
RiskLevel(averageRiskScore) ==
    IF AtLeast(averageRiskScore, Double(7, 10)) THEN [riskLevel |-> "high", riskColor |-> "red"]
    ELSE IF AtLeast(averageRiskScore, Double(4, 10))
         THEN [riskLevel |-> "medium", riskColor |-> "yellow"]
         ELSE [riskLevel |-> "low", riskColor |-> "green"]

EscalationStrings ==
    <<"Consider seeking experienced legal counsel",
      "Develop a comprehensive case strategy",
      "Allocate additional resources for case preparation">>
EvidenceStrings ==
    <<"Focus on gathering additional evidence", "Consider expert witnesses or testimony">>
DeadlineStrings ==
    <<"Prioritize critical deadlines", "Consider requesting extensions where possible">>
PreparationStrings ==
    <<"Prepare for well-funded opposition", "Focus on strong legal arguments and precedents">>

\* An array that outlives the call: it still holds what the last call pushed.
RecommendationsKept ==
    IF assessments = <<>> THEN <<>>
    ELSE assessments[Len(assessments)].assessment.recommendations

\* const recommendations = []
NewRecommendations == <<>>

\* Rules of which the first that applies is the only one to fire.
RecommendationsFirstOnly(factors, averageRiskScore) ==
    IF AtLeast(averageRiskScore, Double(6, 10)) THEN EscalationStrings
    ELSE IF ValueOf(factors, "evidence_strength") = "weak" THEN EvidenceStrings
    ELSE IF ValueOf(factors, "time_constraints") = "urgent" THEN DeadlineStrings
    ELSE IF ValueOf(factors, "opponent_resources") = "extensive" THEN PreparationStrings
    ELSE <<>>

\* The four rules, each pushing its strings when it applies.
Recommendations(factors, averageRiskScore) ==
    NewRecommendations
    \o (IF AtLeast(averageRiskScore, Double(6, 10)) THEN EscalationStrings ELSE <<>>)
    \o (IF ValueOf(factors, "evidence_strength") = "weak" THEN EvidenceStrings ELSE <<>>)
    \o (IF ValueOf(factors, "time_constraints") = "urgent" THEN DeadlineStrings ELSE <<>>)
    \o (IF ValueOf(factors, "opponent_resources") = "extensive"
        THEN PreparationStrings ELSE <<>>)

\* The assessment the handler answers with at clock value t, for a body that
\* passed the validators and names no case.
Assessment(factors, t, userId) ==
    LET averageRiskScore == AverageRiskScore(factors)
        level == RiskLevel(averageRiskScore)
    IN  [id |-> t,
         userId |-> userId,
         riskScore |-> IF averageRiskScore = NaN THEN NaN
                       ELSE Double(MathRound(Times(averageRiskScore, 100)), 100),
         riskLevel |-> level.riskLevel,
         riskColor |-> level.riskColor,
         factors |-> Accumulated(factors, Len(factors)).assessmentDetails,
         recommendations |-> Recommendations(factors, averageRiskScore),
         createdAt |-> t]

\* The orders in which a body may list the five keys.
KeyOrders == {<<1, 2, 3, 4, 5>>, <<5, 4, 3, 2, 1>>, <<1, 5, 2, 4, 3>>}

\* The bodies: every choice of labels, in each of the orders.
FactorSets ==
    {[i \in 1..5 |-> [key |-> RiskKeys[order[i]],
                      value |-> Labels(RiskKeys[order[i]])[choice[order[i]]]]] :
        order \in KeyOrders, choice \in [1..5 -> 1..3]}

\* How many times the route is called.
MaxScorings == 2

\* How far the clock moves before a call.
ScoringDeltas == {0, 1000}

InitRisk ==
    /\ maxRequests = 1
    /\ windowMs = 1500
    /\ now = 0
    /\ userRequests = [u \in UserIds |-> <<>>]
    /\ responses = [u \in UserIds |-> <<>>]
    /\ users = [u \in UserIds |-> NewUser("pw1")]
    /\ slots = [s \in Slots |-> IdleReq]
    /\ assessments = <<>>
    /\ chat = IdleChat
    /\ InitRecords

\* A Principal posts the factors; a second call sends the same body again.
RiskAssessment(factors, d) ==
    /\ Len(assessments) < MaxScorings
    /\ assessments # <<>> => factors = assessments[1].factors
    /\ now' = now + d
    /\ assessments' = Append(assessments,
                             [factors |-> factors,
                              assessment |-> Assessment(factors, now', "u1")])
    /\ UNCHANGED <<maxRequests, windowMs, userRequests, responses, storeVars, reqVars,
                   chatVars, recordVars>>

NextRisk == \E factors \in FactorSets, d \in ScoringDeltas : RiskAssessment(factors, d)

SpecRisk == InitRisk /\ [][NextRisk]_vars

\* Keys and values a body may carry beside the five the validators check:
\* the validators look at the five keys only and let anything else pass.
ExtraFactors ==
    {[key |-> "jurisdiction", value |-> "state"],
     [key |-> "case_type", value |-> "high"],
     [key |-> "notes", value |-> "constructor"],
     [key |-> "toString", value |-> "high"],
     [key |-> "constructor", value |-> "name"]}

\* The five keys in the table's order with the chosen labels.
ValidFactors(choice) ==
    [i \in 1..5 |-> [key |-> RiskKeys[i], value |-> Labels(RiskKeys[i])[choice[i]]]]

\* A Principal posts a body that lists one more key, before or after the five.
RiskAssessmentWithExtra(choice, extra, first) ==
    /\ assessments = <<>>
    /\ LET factors == IF first THEN <<extra>> \o ValidFactors(choice)
                      ELSE Append(ValidFactors(choice), extra)
       IN  assessments' = <<[factors |-> factors,
                             assessment |-> Assessment(factors, now, "u1")]>>
    /\ UNCHANGED <<rateVars, storeVars, reqVars, chatVars, recordVars>>

NextExtra ==
    \E choice \in [1..5 -> 1..3], extra \in ExtraFactors, first \in BOOLEAN :
        RiskAssessmentWithExtra(choice, extra, first)

SpecExtra == InitRisk /\ [][NextExtra]_vars

(***************************************************************************)
(* POST /api/chat/:id/messages                                             *)
(***************************************************************************)
\* The n-th message a user posts and the reply to it.
UserMessage(n) == [role |-> "user", n |-> n]
AssistantMessage(n) == [role |-> "assistant", n |-> n]

\* res.status(status).json({ ..., newMessages, aiError? })
ChatReply(c, status, newMessages, aiError) ==
    [c EXCEPT !.pc = "done",
              !.res = [status |-> status, newMessages |-> newMessages, aiError |-> aiError]]

\* How many messages the user posts.
MaxSends == 3

\* A valid message for the conversation arrives; the handler awaits findOne.
SendMessage ==
    /\ chat.pc \in {"idle", "done"}
    /\ chat.sends < MaxSends
    /\ chat' = [chat EXCEPT !.pc = "findOne", !.sends = @ + 1, !.doc = <<>>,
                            !.res = NoChatRes]
    /\ UNCHANGED <<rateVars, storeVars, reqVars, riskVars, recordVars>>

\* The call the handler awaits resolves (ok) or rejects (~ok), and the
\* handler runs to its next await or to its answer. addMessage pushes onto
\* the loaded document and saves it; the collection changes when the save
\* resolves.
ChatResume(ok) ==
    /\ chat.pc \notin {"idle", "done"}
    /\ chat' =
         CASE chat.pc = "findOne" ->
                 IF ok THEN [chat EXCEPT !.doc = Append(chat.stored, UserMessage(chat.sends)),
                                         !.pc = "saveUser"]
                 ELSE ChatReply(chat, 500, <<>>, FALSE)
           [] chat.pc = "saveUser" ->
                 IF ok THEN [chat EXCEPT !.stored = chat.doc, !.pc = "generate"]
                 ELSE ChatReply(chat, 500, <<>>, FALSE)
           [] chat.pc = "generate" ->
                 IF ok THEN [chat EXCEPT !.doc = Append(@, AssistantMessage(chat.sends)),
                                         !.pc = "saveAssistant"]
                 ELSE ChatReply(chat, 201, <<UserMessage(chat.sends)>>, TRUE)
           [] chat.pc = "saveAssistant" ->
                 IF ok THEN [chat EXCEPT !.stored = chat.doc, !.pc = "reload"]
                 ELSE ChatReply(chat, 201, <<UserMessage(chat.sends)>>, TRUE)
           [] chat.pc = "reload" ->
                 IF ok THEN ChatReply(chat, 201, <<UserMessage(chat.sends),
                                                   AssistantMessage(chat.sends)>>, FALSE)
                 ELSE ChatReply(chat, 201, <<UserMessage(chat.sends)>>, TRUE)
    /\ UNCHANGED <<rateVars, storeVars, reqVars, riskVars, recordVars>>

InitChat ==
    /\ maxRequests = 1
    /\ windowMs = 1500
    /\ now = 0
    /\ userRequests = [u \in UserIds |-> <<>>]
    /\ responses = [u \in UserIds |-> <<>>]
    /\ users = [u \in UserIds |-> NewUser("pw1")]
    /\ slots = [s \in Slots |-> IdleReq]
    /\ assessments = <<>>
    /\ chat = IdleChat
    /\ InitRecords

NextChat ==
    \/ SendMessage
    \/ \E ok \in BOOLEAN : ChatResume(ok)

SpecChat == InitChat /\ [][NextChat]_vars

(***************************************************************************)
(* The gates, each applied to a request that carries a Principal            *)
(***************************************************************************)
\* The ids a resource or a Principal may carry.
IdValues ==
    {ObjectId("u1"), ObjectId("u2"), StringId("u1"), StringId("7"), StringId("07"),
     StringId("42"), NumberId(7), NumberId(42)}

\* What req.resource may be.
Resources == {NoObject, EmptyObject} \cup {OwnedBy(v) : v \in IdValues}

\* What req.body may be.
Bodies == {NoObject, EmptyObject, OwnedBy(ObjectId("u1")), OwnedBy(NumberId(7))}

\* The ids of the Principals that reach the ownership gate.
PrincipalIds == {ObjectId("u1"), ObjectId("u2"), StringId("7"), NumberId(7), StringId("42")}

\* Plan names: the three of the table, and names the table does not know.
Plans == {"free", "premium", "enterprise", "gold", "undefined"}

\* Roles a Principal may carry.
Roles == {"admin", "user", "Admin", "undefined"}

\* A request as authenticateToken hands it to the gate: the Principal is
\* attached and next() has been called once.
GateReq(route, principal) ==
    [NewReq(route, AbsentHeader, "", NoPassword) EXCEPT
        !.user = principal, !.nexts = 1, !.layer = 2]

\* A Principal with the given id, role and plan.
PrincipalWith(oid, role, plan) ==
    [attached |-> TRUE, id |-> "u1", isActive |-> TRUE, oid |-> oid,
     role |-> role, plan |-> plan]

\* The request runs from its gate to its answer.
RunGate(req) == Run(World(req, users, userRequests), TRUE).req

\* A request reaches checkResourceOwnership().
OwnershipRequest(oid, resource, body) ==
    /\ slots' = [slots EXCEPT !["a"] =
                    RunGate([GateReq("owned", PrincipalWith(oid, "undefined", "free"))
                                EXCEPT !.resource = resource, !.body = body])]
    /\ UNCHANGED <<rateVars, storeVars, riskVars, chatVars, recordVars>>

\* A request reaches requireSubscription(requiredLevel).
SubscriptionRequest(plan, requiredLevel) ==
    /\ slots' = [slots EXCEPT !["b"] =
                    RunGate([GateReq("planned", PrincipalWith(ObjectId("u1"), "undefined", plan))
                                EXCEPT !.requiredLevel = requiredLevel])]
    /\ UNCHANGED <<rateVars, storeVars, riskVars, chatVars, recordVars>>

\* A request reaches requireAdmin.
AdminRequest(s, role) ==
    /\ slots' = [slots EXCEPT ![s] =
                    RunGate(GateReq("listUsers", PrincipalWith(ObjectId("u1"), role, "free")))]
    /\ UNCHANGED <<rateVars, storeVars, riskVars, chatVars, recordVars>>

\* No request has reached a gate yet.
InitGates ==
    /\ maxRequests = 1
    /\ windowMs = 1500
    /\ now = 0
    /\ userRequests = [u \in UserIds |-> <<>>]
    /\ responses = [u \in UserIds |-> <<>>]
    /\ users = [u \in UserIds |-> NewUser("pw1")]
    /\ slots = [s \in Slots |-> IdleReq]
    /\ assessments = <<>>
    /\ chat = IdleChat
    /\ InitRecords

NextGates ==
    \/ \E oid \in PrincipalIds, resource \in Resources, body \in Bodies :
           OwnershipRequest(oid, resource, body)
    \/ \E plan \in Plans, requiredLevel \in Plans : SubscriptionRequest(plan, requiredLevel)
    \/ \E s \in Slots, role \in Roles : AdminRequest(s, role)

SpecGates == InitGates /\ [][NextGates]_vars

(***************************************************************************)
(* Claims about the rate limiter, stated for SpecRate.                     *)
(***************************************************************************)
\* The positions of u's admitted requests in its log of outcomes.
AdmittedAt(u) == {i \in DOMAIN responses[u] : responses[u][i].code = "next"}

\* The clock values at which the number of admitted requests inside the
\* trailing window can be largest: an admission time, or the present.
ProbeTimes(u) == {now} \cup {responses[u][i].at : i \in AdmittedAt(u)}

\* k = ceil(x / 1000), stated without the division.
IsCeilOfThousandth(k, x) == 1000 * k >= x /\ 1000 * (k - 1) < x

\* C1: for every user and every time t at most maxRequests admitted requests
\* have a timestamp in (t - windowMs, t], and a request that arrives when the
\* user already has maxRequests admitted timestamps in the trailing window is
\* rejected with 429 RATE_LIMIT_EXCEEDED.
C1_RateLimitSafety ==
    \A u \in UserIds :
        /\ \A t \in ProbeTimes(u) :
               Cardinality({i \in AdmittedAt(u) :
                   /\ responses[u][i].at > t - windowMs
                   /\ responses[u][i].at <= t}) <= maxRequests
        /\ \A j \in DOMAIN responses[u] :
               Cardinality({i \in AdmittedAt(u) :
                   /\ i < j
                   /\ responses[u][i].at > responses[u][j].at - windowMs}) >= maxRequests
               => /\ responses[u][j].status = 429
                  /\ responses[u][j].code = "RATE_LIMIT_EXCEEDED"

\* The spec's example: max = 3, window = 60 s, a fourth request within 10 s
\* of the first is rejected.
C1_Witness ==
    /\ maxRequests = 3
    /\ windowMs = 60000
    /\ \E u \in UserIds :
        /\ Len(responses[u]) >= 4
        /\ \A i \in 1..3 : responses[u][i].code = "next"
        /\ responses[u][4].status = 429
        /\ responses[u][4].at - responses[u][1].at <= 10000

\* C2: after a rejection at time t with retryAfter = r, the user's request at
\* any time >= t + 1000 * r is admitted when no request of the user was
\* admitted in between; and a request made once windowMs has elapsed since
\* the user's last admitted request is admitted.
C2_RateLimitRecovery ==
    \A u \in UserIds : \A j \in DOMAIN responses[u] :
        /\ \A i \in 1..(j - 1) :
               ( /\ responses[u][i].status = 429
                 /\ \A k \in (i + 1)..(j - 1) : responses[u][k].code # "next"
                 /\ responses[u][j].at >= responses[u][i].at + 1000 * responses[u][i].retryAfter )
               => responses[u][j].code = "next"
        /\ ( \A i \in AdmittedAt(u) :
                 i < j => responses[u][j].at >= responses[u][i].at + windowMs )
           => responses[u][j].code = "next"

\* A rejected user comes back exactly when retryAfter has passed and is admitted.
C2_Witness ==
    \E u \in UserIds : \E j \in DOMAIN responses[u] :
        /\ j > 1
        /\ responses[u][j - 1].status = 429
        /\ responses[u][j].code = "next"
        /\ responses[u][j].at = responses[u][j - 1].at + 1000 * responses[u][j - 1].retryAfter

C4_PrunedCount ==
    \A u \in UserIds : \A j \in DOMAIN responses[u] :
        LET r == responses[u][j]
        IN  /\ r.count = Cardinality({i \in DOMAIN r.userHistory :
                                         r.userHistory[i] > r.at - windowMs})
            /\ (r.status = 429) = (r.count >= maxRequests)
            /\ Prune(Prune(r.userHistory, r.at), r.at) = Prune(r.userHistory, r.at)

\* A check that drops a timestamp lying exactly on the window's edge and
\* keeps a younger one.
C4_Witness ==
    \E u \in UserIds : \E j \in DOMAIN responses[u] :
        LET r == responses[u][j]
        IN  /\ \E i \in DOMAIN r.userHistory : r.userHistory[i] = r.at - windowMs
            /\ r.count > 0
            /\ r.count < Len(r.userHistory)

(***************************************************************************)
(* Claims about concurrent requests at the limiter, stated for SpecPipe.   *)
(***************************************************************************)
\* The limiter admitted the request in slot s.
Admitted(s) ==
    /\ slots[s].route = "limited"
    /\ slots[s].user.attached
    /\ slots[s].nexts = 2

\* In this step the request in slot s leaves its lookup and reaches the limiter.
LimiterActs(s) ==
    /\ slots[s].route = "limited"
    /\ slots[s].pc = "lookup"
    /\ slots'[s].pc # "lookup"
    /\ slots'[s].user.attached

\* C5: the limiter reads, prunes, counts and appends in one step per request,
\* whatever the interleaving of the requests in flight: every decision counts
\* the list as the previous decision left it, and the admitted requests of a
\* user inside the trailing window never exceed maxRequests.
C5_LimiterAtomic ==
    /\ [](\A u \in UserIds :
            Cardinality({s \in Slots : /\ Admitted(s)
                                       /\ slots[s].user.id = u
                                       /\ slots[s].at > now - windowMs}) <= maxRequests)
    /\ [][\A s \in Slots : LimiterActs(s) =>
            LET u == slots'[s].user.id
                recent == Prune(userRequests[u], now)
            IN  /\ slots'[s].count = Len(recent)
                /\ (slots'[s].nexts = 2) = (Len(recent) < maxRequests)
                /\ slots'[s].nexts = 2 => userRequests' = [userRequests EXCEPT ![u] = Append(recent, now)]
                /\ slots'[s].nexts # 2 => /\ userRequests' = userRequests
                                          /\ slots'[s].res.status = 429]_vars

\* Two requests of one user overlap in flight (the second arrives while the
\* first is suspended in its lookup, and is decided first): one is admitted
\* and the other rejected.
C5_Witness ==
    \E s \in Slots, r \in Slots :
        /\ s # r
        /\ Admitted(s)
        /\ slots[r].route = "limited"
        /\ slots[r].user.attached
        /\ slots[r].user.id = slots[s].user.id
        /\ slots[r].res.status = 429
        /\ slots[r].arrived < slots[s].arrived
        /\ slots[r].at >= slots[s].at
        /\ slots[r].at < slots[s].at + windowMs

(***************************************************************************)
(* Claims about the identity middleware, stated for SpecAuth.             *)
(***************************************************************************)
\* The token the middleware reads from the request in slot s.
TokenOf(s) == ExtractToken(slots[s].header)

\* The token is a JWT (three dot-separated parts that decode).
IsJwt(token) == Len(token) = 1 /\ token[1].kind = "jwt"

\* A JWT signed by the server and not expired.
IsValidToken(token) == IsJwt(token) /\ token[1].signed /\ ~token[1].expired

\* A JWT signed by the server and past its expiry.
IsExpiredToken(token) == IsJwt(token) /\ token[1].signed /\ token[1].expired

\* The request in slot s went through authenticateToken.
Authenticating(s) == slots[s].route \in AuthRoutes

Answered(s, status, code) == slots[s].res = [status |-> status, code |-> code]

\* In this step the lookup of the request in slot s resolves.
LookupReturns(s) == Authenticating(s) /\ slots[s].pc = "lookup" /\ slots'[s].pc # "lookup"

\* C6: authenticateToken attaches a Principal and proceeds only if the token's
\* userId resolves to an existing user that is active at lookup time; a valid
\* token whose user is missing or inactive at lookup time is answered
\* 401 INVALID_TOKEN, so requests made while the account is inactive are
\* rejected.
C6_ActiveAtLookup ==
    /\ [](\A s \in Slots : Authenticating(s) =>
            /\ slots[s].user.attached =>
                  /\ IsValidToken(TokenOf(s))
                  /\ slots[s].lookup.kind = "doc"
                  /\ slots[s].lookup.isActive
                  /\ slots[s].lookup.id = TokenOf(s)[1].userId
                  /\ slots[s].user.id = TokenOf(s)[1].userId
            /\ ( /\ IsValidToken(TokenOf(s))
                 /\ \/ slots[s].lookup.kind = "null"
                    \/ slots[s].lookup.kind = "doc" /\ ~slots[s].lookup.isActive )
               => /\ Answered(s, 401, "INVALID_TOKEN")
                  /\ ~slots[s].user.attached
                  /\ ~slots[s].handler)
    /\ [][\A s \in Slots : LookupReturns(s) =>
            LET id == TokenOf(s)[1].userId
                active == users[id].exists /\ users[id].isActive
            IN  /\ slots'[s].user.attached => active
                /\ (slots'[s].lookup.kind # "error" /\ ~active) =>
                      /\ slots'[s].res = [status |-> 401, code |-> "INVALID_TOKEN"]
                      /\ ~slots'[s].user.attached
                      /\ ~slots'[s].handler]_vars

\* PATCH /deactivate has succeeded for a user, and a later request with that
\* user's valid token is answered 401 INVALID_TOKEN.
C6_Witness ==
    /\ slots["b"].route = "deactivate"
    /\ Answered("b", 200, "")
    /\ slots["a"].route = "profile"
    /\ IsValidToken(TokenOf("a"))
    /\ TokenOf("a")[1].userId = slots["b"].user.id
    /\ slots["a"].lookup.kind = "doc"
    /\ ~slots["a"].lookup.isActive
    /\ Answered("a", 401, "INVALID_TOKEN")

\* C7: an expired token with a valid signature is answered 401 TOKEN_EXPIRED
\* whatever the user store holds; no Principal is attached, the store is not
\* asked and the handler does not run.
C7_ExpiredToken ==
    \A s \in Slots :
        (Authenticating(s) /\ IsExpiredToken(TokenOf(s))) =>
            /\ Answered(s, 401, "TOKEN_EXPIRED")
            /\ slots[s].pc = "done"
            /\ ~slots[s].user.attached
            /\ ~slots[s].handler
            /\ slots[s].lookups = 0
            /\ slots[s].nexts = 0

\* An expired token of a user whose account has been deactivated.
C7_Witness ==
    \E s \in Slots :
        /\ Authenticating(s)
        /\ IsExpiredToken(TokenOf(s))
        /\ Answered(s, 401, "TOKEN_EXPIRED")
        /\ users[TokenOf(s)[1].userId].exists
        /\ ~users[TokenOf(s)[1].userId].isActive

\* The header has the form `Bearer <token>`.
IsBearerForm(header) ==
    /\ header.present
    /\ Len(header.chars) >= 3
    /\ header.chars[1] = Bearer
    /\ header.chars[2] = Space
    /\ header.chars[3].kind # "space"

\* C8: authenticateToken answers 401 TOKEN_REQUIRED exactly when the request
\* carries no credential in a header of the form `Bearer <token>`, and then
\* verifies nothing, asks the store nothing, attaches no Principal and runs
\* nothing downstream.
C8_TokenRequiredIffNoBearer ==
    \A s \in Slots : Authenticating(s) =>
        /\ (slots[s].res.code = "TOKEN_REQUIRED") = ~IsBearerForm(slots[s].header)
        /\ slots[s].res.code = "TOKEN_REQUIRED" =>
              /\ slots[s].res.status = 401
              /\ slots[s].lookups = 0
              /\ ~slots[s].user.attached
              /\ ~slots[s].handler
              /\ slots[s].nexts = 0

\* C9: 500 TOKEN_VERIFICATION_FAILED is the answer exactly when the lookup
\* fails; a missing token, an expired one, a malformed or badly signed one and
\* a missing or inactive user get their 401 code; one answer per request and
\* one lookup at most.
C9_VerificationFailed ==
    \A s \in Slots : Authenticating(s) =>
        LET req == slots[s]
            token == TokenOf(s)
        IN  /\ (req.res.code = "TOKEN_VERIFICATION_FAILED") = (req.lookup.kind = "error")
            /\ req.res.code = "TOKEN_VERIFICATION_FAILED" => req.res.status = 500
            /\ req.res.code \in {"TOKEN_REQUIRED", "TOKEN_EXPIRED", "INVALID_TOKEN"}
                  => req.res.status = 401
            /\ token = <<>> => Answered(s, 401, "TOKEN_REQUIRED")
            /\ (token # <<>> /\ (~IsJwt(token) \/ ~token[1].signed))
                  => Answered(s, 401, "INVALID_TOKEN")
            /\ IsExpiredToken(token) => Answered(s, 401, "TOKEN_EXPIRED")
            /\ (req.lookup.kind = "null" \/ (req.lookup.kind = "doc" /\ ~req.lookup.isActive))
                  => Answered(s, 401, "INVALID_TOKEN")
            /\ req.lookups <= 1
            /\ req.nexts = 0 => req.sent <= 1 /\ ~req.user.attached /\ ~req.handler
            /\ (req.nexts = 0 /\ req.pc = "done") => req.sent = 1
            /\ req.nexts >= 1 =>
                  req.res.code \notin {"TOKEN_REQUIRED", "TOKEN_EXPIRED", "INVALID_TOKEN",
                                       "TOKEN_VERIFICATION_FAILED"}

\* The lookup of a valid token fails and the request is answered 500.
C9_Witness ==
    \E s \in Slots :
        /\ Authenticating(s)
        /\ IsValidToken(TokenOf(s))
        /\ slots[s].lookup.kind = "error"
        /\ slots[s].lookups = 1
        /\ Answered(s, 500, "TOKEN_VERIFICATION_FAILED")

\* authenticateToken, given the same header and the same answer of the store,
\* attaches a Principal and calls next().
WouldAuthenticate(header, found) ==
    LET started == AuthenticateTokenStart(NewReq("profile", header, "", NoPassword))
    IN  /\ started.pc = "lookup"
        /\ found.kind # "none"
        /\ AuthenticateTokenResume(started, found).user.attached

\* C10: optionalAuth never answers with an error: downstream processing runs
\* for every request, and a Principal is attached exactly when
\* authenticateToken would have attached one.
C10_OptionalAuth ==
    \A s \in Slots : slots[s].route = "optional" =>
        LET req == slots[s]
            started == AuthenticateTokenStart(NewReq("profile", req.header, "", NoPassword))
        IN  /\ req.pc \in {"lookup", "done"}
            /\ (req.lookups = 1) = (started.pc = "lookup")
            /\ req.pc = "lookup" => req.lookup.kind = "none" /\ req.sent = 0
            /\ req.pc = "done" =>
                  /\ req.handler
                  /\ req.nexts = 1
                  /\ req.sent = 1
                  /\ req.res.status = 200
                  /\ req.lookups = 1 => req.lookup.kind # "none"
            /\ req.user.attached = WouldAuthenticate(req.header, req.lookup)

\* A valid token of a deactivated user on the optional route: the handler
\* runs without a Principal.
C10_Witness ==
    \E s \in Slots :
        /\ slots[s].route = "optional"
        /\ IsValidToken(TokenOf(s))
        /\ slots[s].lookup.kind = "doc"
        /\ ~slots[s].lookup.isActive
        /\ ~slots[s].user.attached
        /\ slots[s].handler
        /\ slots[s].res.status = 200

(***************************************************************************)
(* Claims about the gates, stated for SpecGates.                           *)
(***************************************************************************)
\* The object the ownership gate looks at: req.resource when there is one,
\* the request body otherwise.
GatedResource(req) == IF req.resource.present THEN req.resource ELSE req.body

\* The gate let the request in slot s through and its handler ran.
Proceeded(s) == slots[s].nexts = 2 /\ slots[s].handler /\ slots[s].res.status = 200

\* Two ids denote the same id: the same text, the same number, or a number
\* and its decimal numeral.
SameId(a, b) ==
    CASE a.repr = "number" /\ b.repr = "number" -> a.num = b.num
      [] a.repr = "number" -> <<a.num, b.text>> \in {<<7, "7">>, <<42, "42">>}
      [] b.repr = "number" -> <<b.num, a.text>> \in {<<7, "7">>, <<42, "42">>}
      [] OTHER -> a.text = b.text

\* C11: when the resource carries an owner id and the Principal an id, in
\* whatever representation (string, number, object id), the ownership gate
\* proceeds exactly when the two denote the same id as strings, and answers
\* 403 ACCESS_DENIED otherwise, without running the handler.
C11_OwnershipGate ==
    \A s \in Slots :
        LET req == slots[s]
            owner == Field(GatedResource(req))
        IN  (req.route = "owned" /\ owner # Undefined /\ req.user.oid # Undefined) =>
                /\ Proceeded(s) = SameId(owner, req.user.oid)
                /\ ~Proceeded(s) => /\ Answered(s, 403, "ACCESS_DENIED")
                                     /\ ~req.handler
                                     /\ req.nexts = 1

\* A resource owned by the number 7 is reached by the Principal whose id is
\* the string "7".
C11_Witness ==
    \E s \in Slots :
        /\ slots[s].route = "owned"
        /\ Field(GatedResource(slots[s])) = NumberId(7)
        /\ slots[s].user.oid = StringId("7")
        /\ Proceeded(s)

\* C12: the ownership gate ends every request that carries a Principal in
\* exactly one of proceed, 400 RESOURCE_NOT_FOUND and 403 ACCESS_DENIED:
\* RESOURCE_NOT_FOUND exactly when neither req.resource nor a body is there,
\* ACCESS_DENIED exactly when both ids are there and differ, and proceed in
\* every other case, a resource without the owner field included; req.resource
\* comes before the body.
C12_OwnershipTotal ==
    \A s \in Slots :
        LET req == slots[s]
            owner == Field(GatedResource(req))
            missing == ~req.resource.present /\ ~req.body.present
            unequal == /\ ~missing
                       /\ owner # Undefined
                       /\ ~SameId(owner, req.user.oid)
        IN  req.route = "owned" =>
                /\ req.pc = "done"
                /\ Answered(s, 400, "RESOURCE_NOT_FOUND") = missing
                /\ Answered(s, 403, "ACCESS_DENIED") = unequal
                /\ Proceeded(s) = (~missing /\ ~unequal)
                /\ (missing \/ unequal) => ~req.handler /\ req.nexts = 1

\* The ordinal of a plan name.
Ordinal(plan) ==
    CASE plan = "premium" -> 2
      [] plan = "enterprise" -> 3
      [] OTHER -> 1

AdminRoutes == {"listUsers", "reactivate"}

\* C14: requireAdmin proceeds exactly when the Principal's role is the
\* string `admin`; any other role, and no role at all, is answered
\* 403 ADMIN_REQUIRED, and the handler of an admin-only route does not run.
C14_AdminGate ==
    \A s \in Slots :
        LET req == slots[s]
        IN  (req.route \in AdminRoutes /\ req.user.attached) =>
                /\ (req.nexts = 2) = (req.user.role = "admin")
                /\ req.user.role # "admin" =>
                      /\ Answered(s, 403, "ADMIN_REQUIRED")
                      /\ ~req.handler
                /\ req.handler => req.user.role = "admin"

\* One request of an admin reaches the handler while a request whose role is
\* spelled `Admin` is answered 403.
C14_Witness ==
    \E s \in Slots, r \in Slots :
        /\ slots[s].route = "listUsers"
        /\ slots[s].user.role = "admin"
        /\ Proceeded(s)
        /\ slots[r].route = "listUsers"
        /\ slots[r].user.role = "Admin"
        /\ Answered(r, 403, "ADMIN_REQUIRED")

(***************************************************************************)
(* Claims about the order of the layers, stated for SpecAuth.              *)
(***************************************************************************)
\* The codes with which a guard ends a request.
GuardCodes ==
    {"TOKEN_REQUIRED", "TOKEN_EXPIRED", "INVALID_TOKEN", "TOKEN_VERIFICATION_FAILED",
     "RESOURCE_NOT_FOUND", "ACCESS_DENIED", "SUBSCRIPTION_REQUIRED", "ADMIN_REQUIRED",
     "RATE_LIMIT_EXCEEDED"}

\* The number of guards before the handler of a route.
Guards(route) == Len(Chain(route)) - 1

TenthsSum(factors) ==
    Tenths(factors[1].key, factors[1].value) + Tenths(factors[2].key, factors[2].value)
    + Tenths(factors[3].key, factors[3].value) + Tenths(factors[4].key, factors[4].value)
    + Tenths(factors[5].key, factors[5].value)

\* The body with the same labels, its keys listed in another order.
Reordered(factors, order) ==
    [i \in 1..5 |-> [key |-> RiskKeys[order[i]],
                     value |-> ValueOf(factors, RiskKeys[order[i]])]]

\* The level the thresholds give to a mean of sum / 50.
LevelOfMean(sum) == IF sum >= 35 THEN "high" ELSE IF sum >= 20 THEN "medium" ELSE "low"

\* C16: for every valid body riskScore is the mean of the five weights
\* rounded to two decimals and lies in [0, 1], whatever the order of the
\* keys; riskLevel is high iff the mean >= 0.7, medium iff 0.4 <= mean < 0.7
\* and low otherwise; the all-worst body gives 0.76 / high and the all-best
\* one 0.16 / low; and the level derived from the reported riskScore is the
\* reported level.
C16_RiskScoreAndLevel ==
    \A n \in DOMAIN assessments :
        LET factors == assessments[n].factors
            a == assessments[n].assessment
            sum == TenthsSum(factors)
        IN  /\ a.riskScore = Double(2 * sum, 100)
            /\ 0 <= 2 * sum /\ 2 * sum <= 100
            /\ a.riskLevel = LevelOfMean(sum)
            /\ RiskLevel(a.riskScore).riskLevel = a.riskLevel
            /\ \A order \in KeyOrders :
                  LET b == Assessment(Reordered(factors, order), a.id, a.userId)
                  IN  b.riskScore = a.riskScore /\ b.riskLevel = a.riskLevel
            /\ sum = 38 => a.riskScore = Double(76, 100) /\ a.riskLevel = "high"
            /\ sum = 8 => a.riskScore = Double(16, 100) /\ a.riskLevel = "low"

\* The list the four rules give to a body whose weights sum to `sum` tenths.
ExpectedRecommendations(factors, sum) ==
    (IF sum >= 30 THEN EscalationStrings ELSE <<>>)
    \o (IF ValueOf(factors, "evidence_strength") = "weak" THEN EvidenceStrings ELSE <<>>)
    \o (IF ValueOf(factors, "time_constraints") = "urgent" THEN DeadlineStrings ELSE <<>>)
    \o (IF ValueOf(factors, "opponent_resources") = "extensive"
        THEN PreparationStrings ELSE <<>>)

\* C17: the recommendations are, in this order, the three escalation strings
\* iff the mean >= 0.6, the two evidence strings iff evidence_strength is
\* weak, the two deadline strings iff time_constraints is urgent and the two
\* preparation strings iff opponent_resources is extensive, each rule on its
\* own; the list is empty iff no rule applies; the all-worst body gets all
\* nine strings and the all-best body none.
C17_Recommendations ==
    \A n \in DOMAIN assessments :
        LET factors == assessments[n].factors
            a == assessments[n].assessment
            sum == TenthsSum(factors)
        IN  /\ a.recommendations = ExpectedRecommendations(factors, sum)
            /\ (a.recommendations = <<>>) =
                  ( /\ sum < 30
                    /\ ValueOf(factors, "evidence_strength") # "weak"
                    /\ ValueOf(factors, "time_constraints") # "urgent"
                    /\ ValueOf(factors, "opponent_resources") # "extensive" )
            /\ sum = 38 => Len(a.recommendations) = 9
            /\ sum = 8 => a.recommendations = <<>>

\* A body whose mean is exactly 0.6 gets the escalation strings, followed by
\* the strings of another rule.
C17_Witness ==
    \E n \in DOMAIN assessments :
        /\ TenthsSum(assessments[n].factors) = 30
        /\ Len(assessments[n].assessment.recommendations) >= 5
        /\ SubSeq(assessments[n].assessment.recommendations, 1, 3) = EscalationStrings

\* An assessment without the fields that are read from the clock.
Unstamped(a) ==
    [userId |-> a.userId, riskScore |-> a.riskScore, riskLevel |-> a.riskLevel,
     riskColor |-> a.riskColor, factors |-> a.factors,
     recommendations |-> a.recommendations]

UserMessageSaved ==
    \/ chat.pc \in {"generate", "saveAssistant", "reload"}
    \/ chat.pc = "done" /\ chat.res.status = 201

\* C19: once the user message is saved, a failure of a later step (the AI
\* response, the save of the assistant message, the reload) never removes it:
\* the request is answered 201 with newMessages holding the user message
\* alone and with aiError, and the stored conversation ends with that user
\* message.
C19_ChatPartialFailure ==
    /\ UserMessageSaved =>
          \E i \in DOMAIN chat.stored : chat.stored[i] = UserMessage(chat.sends)
    /\ (chat.pc = "done" /\ chat.res.aiError) =>
          /\ chat.res.status = 201
          /\ chat.res.newMessages = <<UserMessage(chat.sends)>>
          /\ chat.stored # <<>>
          /\ chat.stored[Len(chat.stored)] = UserMessage(chat.sends)

(***************************************************************************)
(* Claims about the change of password, stated for SpecAuth.               *)
(***************************************************************************)
\* C20: a user registered with a password who authenticates with a valid
\* token and sends PUT /api/auth/password with the right currentPassword and
\* a valid newPassword succeeds, and the stored password becomes
\* newPassword, so that a later login succeeds with it and fails with the
\* old one; NO_PASSWORD is answered only for accounts without a stored
\* password.
C20_ChangePassword ==
    \A s \in Slots :
        LET req == slots[s]
            stored == users[req.user.id]
        IN  (req.route = "password" /\ req.pc = "done" /\ req.user.attached) =>
                /\ req.res.code = "NO_PASSWORD" => stored.password = NoPassword
                /\ req.res.status = 200 =>
                      /\ ComparePassword(stored, req.newPassword)
                      /\ req.newPassword # req.password =>
                            ~ComparePassword(stored, req.password)
                /\ (ComparePassword(stored, req.password) /\ req.newPassword # req.password)
                      => req.res.status \notin {200, 400}

(***************************************************************************)
(* The record routes.  Each runs behind authenticateToken, so it is given  *)
(* the Principal u that the middleware attached (req.user._id).  A route   *)
(* answers with res.status(..).json(..): the model keeps the status, the   *)
(* code and the ids of the records the answer contains.                    *)
(***************************************************************************)
\* res.status(status).json({code, ...}) for the request op of u on id.
Answer(op, u, id, body, status, code, items) ==
    [op |-> op, userId |-> u, id |-> id, body |-> body,
     status |-> status, code |-> code, items |-> items]

\* Mongoose applies an update object (or Object.assign) to a stored record:
\* the fields the object carries replace the stored ones.
Assign(record, updates) ==
    [f \in DOMAIN record |-> IF f \in DOMAIN updates THEN updates[f] ELSE record[f]]

(***************************************************************************)
(* The documents.                                                          *)
(***************************************************************************)
\* The number of documents uploaded in SpecDocs.
MaxDocuments == 2

\* The _id values a request can name.
DocumentIds == 1..MaxDocuments

\* The bodies of PUT /:id: the validators check title, description, category
\* and tags only when present, and the body is passed on whole.
DocumentUpdates ==
    {[title |-> "t2"], [isDeleted |-> FALSE], [isDeleted |-> TRUE]}

\* new Document(documentData) with the defaults of the schema.
NewDocument(u, title) ==
    [userId |-> u, title |-> title, isDeleted |-> FALSE, deletedAt |-> "undefined"]

\* The filter {_id: id, userId: req.user._id, isDeleted: false} of the routes
\* that read one document.
DocumentQuery(id, u) ==
    /\ id \in DOMAIN documents
    /\ documents[id].userId = u
    /\ documents[id].isDeleted = FALSE

\* An update filter that does not look at isDeleted.
UpdateQueryAnyState(id, u) ==
    /\ id \in DOMAIN documents
    /\ documents[id].userId = u

\* The filter of findOneAndUpdate in PUT /:id.
UpdateQuery(id, u) ==
    /\ id \in DOMAIN documents
    /\ documents[id].userId = u
    /\ documents[id].isDeleted = FALSE

\* The filter {userId: req.user._id, isDeleted: false} of the list, the
\* search and the counts.
ListQuery(u) ==
    {id \in DOMAIN documents : documents[id].userId = u /\ documents[id].isDeleted = FALSE}

\* documentSchema.methods.softDelete.
SoftDelete(document) == [document EXCEPT !.isDeleted = TRUE, !.deletedAt = "Date"]

\* What the document routes leave unchanged.
outsideDocs == <<rateVars, storeVars, reqVars, riskVars, chatVars, cases, entries, year>>

\* POST /upload with one file.
UploadDocument(u) ==
    /\ Len(documents) < MaxDocuments
    /\ documents' = Append(documents, NewDocument(u, "t1"))
    /\ shown' = Answer("upload", u, Len(documents) + 1, NoBody, 201, "", {Len(documents) + 1})
    /\ UNCHANGED outsideDocs

\* GET /:id (the save of lastAccessed touches no field of the model).
GetDocument(u, id) ==
    /\ shown' = IF DocumentQuery(id, u)
                 THEN Answer("get", u, id, NoBody, 200, "", {id})
                 ELSE Answer("get", u, id, NoBody, 404, "DOCUMENT_NOT_FOUND", {})
    /\ UNCHANGED documents
    /\ UNCHANGED outsideDocs

\* PUT /:id with a body that passed the validators.
UpdateDocument(u, id, updates) ==
    /\ IF UpdateQuery(id, u)
       THEN /\ documents' = [documents EXCEPT ![id] = Assign(@, updates)]
            /\ shown' = Answer("update", u, id, updates, 200, "", {id})
       ELSE /\ UNCHANGED documents
            /\ shown' = Answer("update", u, id, updates, 404, "DOCUMENT_NOT_FOUND", {})
    /\ UNCHANGED outsideDocs

\* DELETE /:id.
DeleteDocument(u, id) ==
    /\ IF DocumentQuery(id, u)
       THEN /\ documents' = [documents EXCEPT ![id] = SoftDelete(@)]
            /\ shown' = Answer("delete", u, id, NoBody, 200, "", {})
       ELSE /\ UNCHANGED documents
            /\ shown' = Answer("delete", u, id, NoBody, 404, "DOCUMENT_NOT_FOUND", {})
    /\ UNCHANGED outsideDocs

\* GET /:id/download; fileExists is what fs.existsSync answers.
DownloadDocument(u, id, fileExists) ==
    /\ shown' = IF ~DocumentQuery(id, u)
                 THEN Answer("download", u, id, NoBody, 404, "DOCUMENT_NOT_FOUND", {})
                 ELSE IF ~fileExists
                 THEN Answer("download", u, id, NoBody, 404, "FILE_NOT_FOUND", {})
                 ELSE Answer("download", u, id, NoBody, 200, "", {id})
    /\ UNCHANGED documents
    /\ UNCHANGED outsideDocs

\* POST /:id/annotations with a body that passed the validators (the push to
\* the annotations array touches no field of the model).
AnnotateDocument(u, id) ==
    /\ shown' = IF DocumentQuery(id, u)
                 THEN Answer("annotate", u, id, NoBody, 201, "", {id})
                 ELSE Answer("annotate", u, id, NoBody, 404, "DOCUMENT_NOT_FOUND", {})
    /\ UNCHANGED documents
    /\ UNCHANGED outsideDocs

\* GET / without filters.
ListDocuments(u) ==
    /\ shown' = Answer("list", u, 0, NoBody, 200, "", ListQuery(u))
    /\ UNCHANGED documents
    /\ UNCHANGED outsideDocs

\* GET /search/text?q=...: the text index matches the title.
SearchDocuments(u, q) ==
    /\ shown' = Answer("search", u, 0, [q |-> q], 200, "",
                        {id \in ListQuery(u) : documents[id].title = q})
    /\ UNCHANGED documents
    /\ UNCHANGED outsideDocs

InitDocs ==
    /\ maxRequests = 1
    /\ windowMs = 1500
    /\ now = 0
    /\ userRequests = [u \in UserIds |-> <<>>]
    /\ responses = [u \in UserIds |-> <<>>]
    /\ users = [u \in UserIds |-> NewUser("pw1")]
    /\ slots = [s \in Slots |-> IdleReq]
    /\ assessments = <<>>
    /\ chat = IdleChat
    /\ InitRecords

NextDocs ==
    \/ \E u \in UserIds : UploadDocument(u)
    \/ \E u \in UserIds, id \in DocumentIds : GetDocument(u, id)
    \/ \E u \in UserIds, id \in DocumentIds, updates \in DocumentUpdates :
          UpdateDocument(u, id, updates)
    \/ \E u \in UserIds, id \in DocumentIds : DeleteDocument(u, id)
    \/ \E u \in UserIds, id \in DocumentIds, fileExists \in BOOLEAN :
          DownloadDocument(u, id, fileExists)
    \/ \E u \in UserIds, id \in DocumentIds : AnnotateDocument(u, id)
    \/ \E u \in UserIds : ListDocuments(u)
    \/ \E u \in UserIds, q \in {"t1", "t2"} : SearchDocuments(u, q)

SpecDocs == InitDocs /\ [][NextDocs]_vars

MaxCases == 3

\* The _id values a request can name.
CaseIds == 1..MaxCases

\* A deleted case: findOneAndDelete removes the record.
NoCase == [userId |-> "", caseNumber |-> "", status |-> ""]

\* The ids of the cases in the collection.
StoredCases == {id \in DOMAIN cases : cases[id] # NoCase}

\* String(n).padStart(width, '0')
RECURSIVE PadStart(_, _)
PadStart(text, width) == IF Len(text) >= width THEN text ELSE PadStart("0" \o text, width)

\* `CASE-${year}-${String(count + 1).padStart(4, '0')}`
CaseNumber(y, count) ==
    "CASE-" \o NumberToString(y) \o "-" \o PadStart(NumberToString(count + 1), 4)

\* this.constructor.countDocuments({ userId: this.userId })
CountDocuments(u) == Cardinality({id \in StoredCases : cases[id].userId = u})

\* The bodies of POST /: the validators check title, description, caseType,
\* priority and caseNumber, and the body is spread whole into the new case.
CaseBodies ==
    {[status |-> "active"],
     [status |-> "active", caseNumber |-> "CASE-2025-0002"],
     [status |-> "active", userId |-> "u2"]}

\* The bodies of PUT /:id: the validators check title, description, status
\* and priority only when present, and the body is passed on whole.
CaseUpdates == {[status |-> "closed"], [userId |-> "u2"]}

\* new Case({...req.body, userId: req.user._id}) after the pre('save') hook
\* that generates the case number when the body gave none.
NewCase(u, body) ==
    [userId |-> u,
     caseNumber |-> IF "caseNumber" \in DOMAIN body THEN body.caseNumber
                    ELSE CaseNumber(year, CountDocuments(u)),
     status |-> body.status]

\* The unique index on caseNumber refuses the save (error code 11000).
DuplicateKey(case) == \E id \in StoredCases : cases[id].caseNumber = case.caseNumber

\* The filter {_id: id, userId: req.user._id} of the case routes.
CaseQuery(id, u) == id \in StoredCases /\ cases[id].userId = u

\* What the case routes leave unchanged.
outsideCases ==
    <<rateVars, storeVars, reqVars, riskVars, chatVars, documents, entries>>

\* POST / with a body that passed the validators.
CreateCase(u, body) ==
    /\ Len(cases) < MaxCases
    /\ IF DuplicateKey(NewCase(u, body))
       THEN /\ UNCHANGED cases
            /\ shown' = Answer("createCase", u, 0, body, 400, "DUPLICATE_CASE_NUMBER", {})
       ELSE /\ cases' = Append(cases, NewCase(u, body))
            /\ shown' = Answer("createCase", u, Len(cases) + 1, body, 201, "",
                                {Len(cases) + 1})
    /\ UNCHANGED year
    /\ UNCHANGED outsideCases

\* GET /:id.
GetCase(u, id) ==
    /\ shown' = IF CaseQuery(id, u) THEN Answer("getCase", u, id, NoBody, 200, "", {id})
                 ELSE Answer("getCase", u, id, NoBody, 404, "CASE_NOT_FOUND", {})
    /\ UNCHANGED <<cases, year>>
    /\ UNCHANGED outsideCases

\* GET / without filters.
ListCases(u) ==
    /\ shown' = Answer("listCases", u, 0, NoBody, 200, "",
                        {id \in StoredCases : cases[id].userId = u})
    /\ UNCHANGED <<cases, year>>
    /\ UNCHANGED outsideCases

\* PUT /:id with a body that passed the validators.
UpdateCase(u, id, updates) ==
    /\ IF CaseQuery(id, u)
       THEN /\ cases' = [cases EXCEPT ![id] = Assign(@, updates)]
            /\ shown' = Answer("updateCase", u, id, updates, 200, "", {id})
       ELSE /\ UNCHANGED cases
            /\ shown' = Answer("updateCase", u, id, updates, 404, "CASE_NOT_FOUND", {})
    /\ UNCHANGED year
    /\ UNCHANGED outsideCases

\* DELETE /:id.
DeleteCase(u, id) ==
    /\ IF CaseQuery(id, u)
       THEN /\ cases' = [cases EXCEPT ![id] = NoCase]
            /\ shown' = Answer("deleteCase", u, id, NoBody, 200, "", {})
       ELSE /\ UNCHANGED cases
            /\ shown' = Answer("deleteCase", u, id, NoBody, 404, "CASE_NOT_FOUND", {})
    /\ UNCHANGED year
    /\ UNCHANGED outsideCases

\* POST /:id/notes and POST /:id/timeline: the case is found with the same
\* filter, one element is pushed to an array the model does not keep, and
\* the case is saved and answered.
AddNote(u, id) ==
    /\ shown' = IF CaseQuery(id, u) THEN Answer("addNote", u, id, NoBody, 201, "", {id})
                 ELSE Answer("addNote", u, id, NoBody, 404, "CASE_NOT_FOUND", {})
    /\ UNCHANGED <<cases, year>>
    /\ UNCHANGED outsideCases

\* The year changes.
NewYear ==
    /\ year < 2026
    /\ year' = year + 1
    /\ UNCHANGED <<cases, shown>>
    /\ UNCHANGED outsideCases

InitCases ==
    /\ maxRequests = 1
    /\ windowMs = 1500
    /\ now = 0
    /\ userRequests = [u \in UserIds |-> <<>>]
    /\ responses = [u \in UserIds |-> <<>>]
    /\ users = [u \in UserIds |-> NewUser("pw1")]
    /\ slots = [s \in Slots |-> IdleReq]
    /\ assessments = <<>>
    /\ chat = IdleChat
    /\ InitRecords

NextCases ==
    \/ \E u \in UserIds, body \in CaseBodies : CreateCase(u, body)
    \/ \E u \in UserIds, id \in CaseIds : GetCase(u, id)
    \/ \E u \in UserIds : ListCases(u)
    \/ \E u \in UserIds, id \in CaseIds, updates \in CaseUpdates : UpdateCase(u, id, updates)
    \/ \E u \in UserIds, id \in CaseIds : DeleteCase(u, id)
    \/ \E u \in UserIds, id \in CaseIds : AddNote(u, id)
    \/ NewYear

SpecCases == InitCases /\ [][NextCases]_vars

\* C25: a case created without a caseNumber gets a number that no stored case
\* has, so its creation is never refused with DUPLICATE_CASE_NUMBER, and no
\* two stored cases share a number.
C25_CaseNumbersUnique ==
    /\ (shown.op = "createCase" /\ "caseNumber" \notin DOMAIN shown.body) =>
           /\ shown.status = 201
           /\ shown.code # "DUPLICATE_CASE_NUMBER"
    /\ \A i \in StoredCases, j \in StoredCases :
           cases[i].caseNumber = cases[j].caseNumber => i = j

\* C27: a case's userId never changes while it is stored, and a request of a
\* Principal other than its owner neither changes it nor is answered with it:
\* it is answered 404 CASE_NOT_FOUND when it names the case, and lists leave
\* the case out.
C27_CaseIsolation ==
    [][\A id \in StoredCases :
          /\ cases'[id] # NoCase => cases'[id].userId = cases[id].userId
          /\ shown'.userId # cases[id].userId =>
                /\ cases'[id] = cases[id]
                /\ id \notin shown'.items
                /\ shown'.id = id => shown'.status = 404 /\ shown'.code = "CASE_NOT_FOUND"]_vars

(***************************************************************************)
(* The journal entries.                                                    *)
(***************************************************************************)
\* The number of entries created in SpecJournal.
MaxEntries == 1

\* The number of content changes an entry receives in SpecJournal.
MaxEdits == 2

\* The _id values a request can name.
EntryIds == 1..MaxEntries

\* The bodies of PUT /:id: the validators check title, content, mood,
\* category, tags and isPrivate only when present, and the body is assigned
\* whole to the entry.
EntryUpdates ==
    {[content |-> "c1"], [content |-> "c2"], [title |-> "t2"],
     [title |-> "t2", version |-> 3], [content |-> "c2", editHistory |-> <<>>]}

\* new JournalEntry(entryData) with the defaults of the schema.
NewEntry(u) ==
    [userId |-> u, isDeleted |-> FALSE, title |-> "t1", content |-> "c1",
     version |-> 1, editHistory |-> <<>>]

\* journalEntrySchema.methods.addToEditHistory, before its save.
AddToEditHistory(entry, oldContent) ==
    [entry EXCEPT !.editHistory = Append(@, [version |-> entry.version,
                                             content |-> oldContent]),
                  !.version = @ + 1]

\* updates.content && updates.content !== entry.content
ContentChanges(entry, updates) ==
    "content" \in DOMAIN updates /\ updates.content # entry.content

\* The filter {_id: id, userId: req.user._id, isDeleted: false}.
EntryQuery(id, u) ==
    /\ id \in DOMAIN entries
    /\ entries[id].userId = u
    /\ entries[id].isDeleted = FALSE

\* What the journal routes leave unchanged.
outsideJournal ==
    <<rateVars, storeVars, reqVars, riskVars, chatVars, documents, cases, year>>

\* POST / with a title and a content.
CreateEntry(u) ==
    /\ Len(entries) < MaxEntries
    /\ entries' = Append(entries, NewEntry(u))
    /\ shown' = Answer("createEntry", u, Len(entries) + 1, NoBody, 201, "",
                        {Len(entries) + 1})
    /\ UNCHANGED outsideJournal

\* GET /:id.
GetEntry(u, id) ==
    /\ shown' = IF EntryQuery(id, u) THEN Answer("getEntry", u, id, NoBody, 200, "", {id})
                 ELSE Answer("getEntry", u, id, NoBody, 404, "ENTRY_NOT_FOUND", {})
    /\ UNCHANGED entries
    /\ UNCHANGED outsideJournal

\* PUT /:id with a body that passed the validators; saves is the number of
\* the handler's saves that the store accepts before one fails (the save of
\* addToEditHistory, when the content changes, and the save after
\* Object.assign).
UpdateEntry(u, id, updates, saves) ==
    /\ IF ~EntryQuery(id, u)
       THEN /\ UNCHANGED entries
            /\ shown' = Answer("updateEntry", u, id, updates, 404, "ENTRY_NOT_FOUND", {})
       ELSE LET entry == entries[id]
                changes == ContentChanges(entry, updates)
                noted == IF changes THEN AddToEditHistory(entry, entry.content) ELSE entry
                needed == IF changes THEN 2 ELSE 1
            IN  /\ changes => Len(entry.editHistory) < MaxEdits /\ entry.version <= MaxEdits
                /\ saves <= needed
                /\ entries' = [entries EXCEPT ![id] =
                                  IF saves = needed THEN Assign(noted, updates)
                                  ELSE IF saves = 0 THEN entry
                                  ELSE noted]
                /\ shown' = IF saves = needed
                             THEN Answer("updateEntry", u, id, updates, 200, "", {id})
                             ELSE Answer("updateEntry", u, id, updates, 500, "", {})
    /\ UNCHANGED outsideJournal

\* DELETE /:id.
DeleteEntry(u, id) ==
    /\ IF EntryQuery(id, u)
       THEN /\ entries' = [entries EXCEPT ![id].isDeleted = TRUE]
            /\ shown' = Answer("deleteEntry", u, id, NoBody, 200, "", {})
       ELSE /\ UNCHANGED entries
            /\ shown' = Answer("deleteEntry", u, id, NoBody, 404, "ENTRY_NOT_FOUND", {})
    /\ UNCHANGED outsideJournal

InitJournal ==
    /\ maxRequests = 1
    /\ windowMs = 1500
    /\ now = 0
    /\ userRequests = [u \in UserIds |-> <<>>]
    /\ responses = [u \in UserIds |-> <<>>]
    /\ users = [u \in UserIds |-> NewUser("pw1")]
    /\ slots = [s \in Slots |-> IdleReq]
    /\ assessments = <<>>
    /\ chat = IdleChat
    /\ InitRecords

NextJournal ==
    \/ \E u \in UserIds : CreateEntry(u)
    \/ \E u \in UserIds, id \in EntryIds : GetEntry(u, id)
    \/ \E u \in UserIds, id \in EntryIds, updates \in EntryUpdates, saves \in 0..2 :
          UpdateEntry(u, id, updates, saves)
    \/ \E u \in UserIds, id \in EntryIds : DeleteEntry(u, id)

SpecJournal == InitJournal /\ [][NextJournal]_vars

\* C26: every entry has version = 1 + length(editHistory); an update that is
\* answered 200 and whose content differs from the stored content appends
\* exactly one record with the previous content and the previous version and
\* adds 1 to version, and an update that leaves the content equal or carries
\* none changes neither version nor editHistory.
C26_EditHistory ==
    /\ [](\A id \in DOMAIN entries :
              entries[id].version = 1 + Len(entries[id].editHistory))
    /\ [][\A id \in DOMAIN entries :
              (shown'.op = "updateEntry" /\ shown'.id = id /\ shown'.status = 200) =>
                 IF ContentChanges(entries[id], shown'.body)
                 THEN /\ entries'[id].editHistory =
                            Append(entries[id].editHistory,
                                   [version |-> entries[id].version,
                                    content |-> entries[id].content])
                      /\ entries'[id].version = entries[id].version + 1
                 ELSE /\ entries'[id].editHistory = entries[id].editHistory
                      /\ entries'[id].version = entries[id].version]_vars

(***************************************************************************)
(* Further claims about the rate limiter, stated for SpecRate.             *)
(***************************************************************************)
\* The last outcome the limiter gave to user u.
LastOutcome(u) == responses[u][Len(responses[u])]

\* C24: a request of user u changes at most the list stored under u, and
\* only when it is admitted: the stored list becomes the pruned list with
\* now appended; a rejected request leaves the whole table as it was; and the
\* decision the limiter would take for any other user is the same before and
\* after.
C24_RateLimitFrame ==
    [][\E u \in UserIds :
          /\ Len(responses'[u]) = Len(responses[u]) + 1
          /\ \A v \in UserIds \ {u} :
                /\ userRequests'[v] = userRequests[v]
                /\ responses'[v] = responses[v]
                /\ \A d \in Deltas :
                      RateLimit(userRequests'[v], now' + d).status
                          = RateLimit(userRequests[v], now' + d).status
          /\ LET r == responses'[u][Len(responses'[u])]
                 kept == SelectSeq(userRequests[u],
                                   LAMBDA timestamp : timestamp > now' - windowMs)
             IN  /\ r.status = 429 => userRequests' = userRequests
                 /\ r.status # 429 => userRequests'[u] = Append(kept, now')]_vars

\* A user has just been rejected while another user, with a list of its own,
\* was admitted before and after.
C24_Witness ==
    \E u \in UserIds, v \in UserIds :
        /\ u # v
        /\ responses[u] # <<>>
        /\ LastOutcome(u).status = 429
        /\ userRequests[u] = LastOutcome(u).userHistory
        /\ Len(responses[v]) >= 2
        /\ LastOutcome(v).code = "next"
        /\ LastOutcome(v).at >= LastOutcome(u).at

\* C29: for every user the stored list holds at most maxRequests timestamps
\* and is in non-decreasing order, so its first element is the oldest one
\* retained.
C29_BoundedWindow ==
    \A u \in UserIds :
        LET list == userRequests[u]
        IN  /\ Len(list) <= maxRequests
            /\ \A i \in DOMAIN list, j \in DOMAIN list : i <= j => list[i] <= list[j]
            /\ list # <<>> => \A i \in DOMAIN list : list[1] <= list[i]

\* A full list of three different timestamps from which an older one has
\* been pruned.
C29_Witness ==
    \E u \in UserIds :
        /\ maxRequests = 3
        /\ Len(userRequests[u]) = 3
        /\ userRequests[u][1] < userRequests[u][2]
        /\ userRequests[u][2] < userRequests[u][3]
        /\ \E i \in DOMAIN responses[u] :
               responses[u][i].code = "next" /\ responses[u][i].at < userRequests[u][1]

(***************************************************************************)
(* The identity guards and what follows them, stated for SpecThrow.        *)
(***************************************************************************)
\* The codes with which authenticateToken answers.
IdentityCodes ==
    {"TOKEN_REQUIRED", "TOKEN_EXPIRED", "INVALID_TOKEN", "TOKEN_VERIFICATION_FAILED"}

\* C28: for every request, whether the handler behind the guard answers or
\* throws, authenticateToken and optionalAuth call next() at most once and
\* answer at most once; a finished request has seen exactly one of the two:
\* one next() and no answer of the guard, or one answer of the guard and no
\* next(); and optionalAuth never answers.
C28_OneOutcome ==
    \A s \in Slots :
        LET req == slots[s]
            answered == req.res.code \in IdentityCodes
        IN  req.route \in GuardedProbes =>
               /\ req.nexts <= 1
               /\ req.sent <= 1
               /\ ~(req.nexts = 1 /\ answered)
               /\ req.pc = "done" =>
                     \/ req.nexts = 1 /\ ~answered
                     \/ req.nexts = 0 /\ answered /\ req.sent = 1
               /\ Chain(req.route)[1] = "optionalAuth" => ~answered

\* Behind each guard a handler has thrown: next() was called once, the
\* error-handling middleware answered 500 and the guard did not answer.
C28_Witness ==
    /\ slots["a"].route = "faulty"
    /\ slots["b"].route = "optionalFaulty"
    /\ \A s \in Slots :
          /\ slots[s].pc = "done"
          /\ slots[s].handler
          /\ slots[s].nexts = 1
          /\ slots[s].sent = 1
          /\ slots[s].res = [status |-> 500, code |-> ""]

(***************************************************************************)
(* Further claims about the accounts, stated for SpecAuth.                 *)
(***************************************************************************)
\* The account of u is registered and active.
ActiveUser(u) == users[u] # NoDocument /\ users[u].isActive

\* The account of u is registered and has been deactivated.
Deactivated(u) == users[u] # NoDocument /\ ~users[u].isActive

\* PATCH /:id/reactivate for the account of u, sent by v with a token that
\* authenticated, has been answered by the Admin gate or by the handler.
ReactivationAnswered(v, u) ==
    /\ slots["b"].route = "reactivate"
    /\ slots["b"].target = u
    /\ slots["b"].pc = "done"
    /\ slots["b"].user.attached
    /\ slots["b"].user.id = v
    /\ slots["b"].res.status \in {200, 403}

\* C22: a deactivated account can be reactivated.  The users stored under the
\* User schema differ in nothing but their ids and passwords, so what one
\* Principal can do every Principal can: once the Admin gate or the handler
\* has answered the reactivation request that an authenticated user v sent
\* for the registered account of u, that account is active.
C22_ReactivationReachable ==
    \A u \in UserIds : \A v \in UserIds \ {u} :
        (ReactivationAnswered(v, u) /\ users[u].exists) => ActiveUser(u)

NeverReactivated ==
    [][\A u \in UserIds : Deactivated(u) => Deactivated(u)']_vars

(***************************************************************************)
(* A further claim about the risk engine, stated for SpecExtra.            *)
(***************************************************************************)
\* The body without the keys that are not in the table.
TableFactors(factors) == SelectSeq(factors, LAMBDA f : f.key \in TableKeys)

\* C23: keys that are not in the table are skipped: a body that carries one
\* gets the riskScore, the riskLevel, the per-factor breakdown and the
\* recommendations of the body without it, and only the recognized pairs are
\* counted in the divisor of the mean.
C23_ExtraFactorsSkipped ==
    \A n \in DOMAIN assessments :
        LET factors == assessments[n].factors
            a == assessments[n].assessment
            b == Assessment(TableFactors(factors), a.id, a.userId)
        IN  /\ a.riskScore = b.riskScore
            /\ a.riskLevel = b.riskLevel
            /\ a.riskColor = b.riskColor
            /\ a.factors = b.factors
            /\ a.recommendations = b.recommendations
            /\ Accumulated(factors, Len(factors)).factorCount = Len(TableFactors(factors))

====
